---- MODULE Spec2Model ----
(***************************************************************************)
(* Verification model of the "Where to DINE" analytic pipeline:            *)
(*   - 08_spatial_intersection.py : intersect, filter, score, rank         *)
(*   - 02_merge_restaurants.py    : cross-source deduplication             *)
(*   - 07_cluster_taxi_dropoffs.py : weighted clustering and the mapping   *)
(*     of the labels of the copies back to the original points             *)
(*   - 06_cluster_restaurants.py  : clustering and the dining zones        *)
(*   - analysis/clustering.py     : the validation routines                *)
(*   - 02_process_taxi_data.py    : per-file ingestion of the taxi trips   *)
(*   - run_pipeline.py            : the driver that runs the scripts       *)
(*   - app.py                     : the web application on the final       *)
(*     hotspots                                                            *)
(* Each stage is a batch script; a stage is modelled as the sequence of    *)
(* steps of its main(), one action per called function.                    *)
(***************************************************************************)
EXTENDS Integers, Sequences, FiniteSets, TLC

VARIABLES
    \* ---- 08_spatial_intersection.py, locals of main() ----
    pc08,               \* position in main()
    config08,           \* the 'intersection' section of config.yaml
    min_area_sqm,       \* threshold handed to apply_filtering_criteria
    min_overlap_ratio,  \* threshold handed to apply_filtering_criteria
    gdf_dining,         \* dining zones read from dining_zones.geojson
    gdf_taxi,           \* taxi hotspots read from taxi_hotspots.geojson
    gdf_intersections,  \* result of compute_spatial_intersections
    gdf_hotspots,       \* result of apply_filtering_criteria / calculate_composite_scores
    files08,            \* final_hotspots.geojson and intersection_analysis.json
    \* ---- 02_merge_restaurants.py, locals of main() / deduplicate_restaurants ----
    pc02,               \* position in main()
    gdf_google,         \* primary dataset (Google Maps), EPSG:4326
    gdf_osm,            \* secondary dataset (OSM), EPSG:4326
    nn_idx,             \* idx1 returned by tree.query for each secondary row
    duplicates,         \* positions (1-based) of the secondary rows found duplicate
    gdf_merged,         \* result of deduplicate_restaurants
    \* ---- 07_cluster_taxi_dropoffs.py, locals of main() ----
    pc07,               \* position in main()
    min_cluster_size,   \* clustering.taxi.min_cluster_size of config.yaml
    df,                 \* taxi drop-offs: one row per original point, with its weight
    coords_weighted,    \* np.repeat(coords_proj, weights_rounded): a copy is the index of its point
    labels,             \* fit_predict(coords_weighted): one label per copy
    weights_rounded,    \* the multiplicities recomputed in main()
    labels_original,    \* one label per original point
    metrics,            \* calculate_validation_metrics(coords_weighted, labels)
    gdf_hotspots07,     \* create_hotspot_polygons(df, labels_original)
    buffer_distance07,  \* clustering.taxi_hotspot_buffer or 150.0
    \* ---- 06_cluster_restaurants.py, locals of main() ----
    pc06,               \* position in main()
    config06,           \* the values of config.yaml that main() reads
    buffer_distance06,  \* clustering.dining_zone_buffer or 100.0
    gdf06,              \* the merged restaurants (WGS84)
    gdf_proj06,         \* the restaurants projected to EPSG:2263
    labels06,           \* fit_predict(coords): one label per restaurant
    metrics06,          \* calculate_validation_metrics(coords, labels)
    gdf_zones,          \* create_dining_zones(gdf_proj, labels, buffer_distance)
    files06,            \* what save_outputs wrote
    \* ---- the validation routines ----
    pcV,                \* position: choose the input, run, done
    routineV,           \* the routine that is run
    labelsV,            \* the label array handed to the routine
    resultsV,           \* what each run so far returned (or that it raised)
    \* ---- run_pipeline.py, locals of main() and the processes it starts ----
    pcP,                \* position in main()
    workdir,            \* what the working directory holds at the required paths
    iP,                 \* the index of the phase in the loop (from 1)
    launched,           \* the scripts handed to subprocess.run so far
    returncodes,        \* the return code of each child that ended
    successP,           \* what run_script returned last
    resultsP,           \* the results list
    exit_status,        \* the exit status of run_pipeline.py (-1: running)
    \* ---- 02_process_taxi_data.py, locals of main() ----
    pcT,                \* position in main()
    taxi_dir,           \* the Parquet files of data/raw/taxi, by month
    taxi_zones_readable, \* whether data/external/boundaries/taxi_zones.shp can be read
    parquet_files,      \* sorted(data_path.glob("*.parquet"))
    iT,                 \* the index of the file in the loop (from 1)
    processed_dfs,      \* the frames of the batches that completed
    logT,               \* the BATCH COMPLETED / FAILED BATCH lines logged
    final_df,           \* pd.concat(processed_dfs)
    filesT,             \* what save_outputs wrote
    \* ---- app.py ----
    pcA,                \* startup, or serving requests
    hotspots_file,      \* data/processed/final_hotspots.geojson
    hotspots_data,      \* the global hotspots_data
    requestA,           \* the request handled last
    responseA           \* the response to it

vars08 == <<pc08, config08, min_area_sqm, min_overlap_ratio,
            gdf_dining, gdf_taxi, gdf_intersections, gdf_hotspots, files08>>

vars02 == <<pc02, gdf_google, gdf_osm, nn_idx, duplicates, gdf_merged>>

vars07 == <<pc07, min_cluster_size, df, coords_weighted, labels, weights_rounded,
            labels_original, metrics, gdf_hotspots07, buffer_distance07>>

vars06 == <<pc06, config06, buffer_distance06, gdf06, gdf_proj06, labels06, metrics06,
            gdf_zones, files06>>

\* HDBSCANClustering.validate and the two calculate_validation_metrics,
\* applied twice to one label array.
varsV == <<pcV, routineV, labelsV, resultsV>>

varsP == <<pcP, workdir, iP, launched, returncodes, successP, resultsP, exit_status>>

varsT == <<pcT, taxi_dir, taxi_zones_readable, parquet_files, iT, processed_dfs, logT,
           final_df, filesT>>

varsA == <<pcA, hotspots_file, hotspots_data, requestA, responseA>>

vars == <<vars08, vars02, vars07, vars06, varsV, varsP, varsT, varsA>>

\* What the steps of one script leave alone: the locals of the other scripts.
others08 == <<vars02, vars07, vars06, varsV, varsP, varsT, varsA>>
others02 == <<vars08, vars07, vars06, varsV, varsP, varsT, varsA>>
others07 == <<vars08, vars02, vars06, varsV, varsP, varsT, varsA>>
others06 == <<vars08, vars02, vars07, varsV, varsP, varsT, varsA>>
othersV == <<vars08, vars02, vars07, vars06, varsP, varsT, varsA>>
othersP == <<vars08, vars02, vars07, vars06, varsV, varsT, varsA>>
othersT == <<vars08, vars02, vars07, vars06, varsV, varsP, varsA>>
othersA == <<vars08, vars02, vars07, vars06, varsV, varsP, varsT>>

(***************************************************************************)
(* Bounds of the model.                                                    *)
(***************************************************************************)
\* Significand width of the binary floating-point numbers of the model.
\* CPython/numpy float64 has 53 bits; the model keeps the same arithmetic
\* (round-to-nearest, ties-to-even after every operation) on a narrower
\* significand so that TLC's integers can carry it.
MantBits == 14
\* Largest number of dining zones / taxi hotspots in the input files.
MaxDining == 2
MaxTaxi == 2
\* Largest number of rows of the primary / secondary restaurant file.
MaxPrimary == 2
MaxSecondary == 2
\* Largest number of rows of the weighted taxi drop-off file.
MaxPoints == 2
\* Largest number of rows of the merged restaurant file.
MaxRestaurants == 4
\* Largest label array handed to a validation routine.
MaxLabels == 5
\* Largest return code of a child process of run_pipeline.py.
MaxReturnCode == 2
\* Largest number of monthly files in data/raw/taxi.
MaxFiles == 2
\* Largest number of rows of final_hotspots.geojson.
MaxHotspots == 2

(***************************************************************************)
(* Binary floating point (non-negative values only: areas, counts,         *)
(* weights, ratios and scores are never negative in this pipeline).        *)
(* A number is [m, e] with value m * 2^e, m = 0 or 2^(MantBits-1) <= m <   *)
(* 2^MantBits, so equal values are equal records.                          *)
(***************************************************************************)
FZero == [m |-> 0, e |-> 0]
\* The result of a division by zero (0/0 = nan; no reachable state of the
\* pipeline divides by zero, so nan and inf are not told apart).
FNaN == [m |-> 0, e |-> 1]

RECURSIVE BitLen(_)
BitLen(n) == IF n = 0 THEN 0 ELSE 1 + BitLen(n \div 2)

\* The float nearest to n * 2^e (plus a nonzero tail below n's last bit when
\* sticky), ties to even.
FRound(n, e, sticky) ==
    IF n = 0 THEN FZero
    ELSE LET len == BitLen(n) IN
         IF len <= MantBits
         THEN [m |-> n * 2^(MantBits - len), e |-> e - (MantBits - len)]
         ELSE LET k    == len - MantBits
                  q    == n \div 2^k
                  r    == n % 2^k
                  half == 2^(k - 1)
                  up   == r > half \/ (r = half /\ (sticky \/ q % 2 = 1))
                  q2   == IF up THEN q + 1 ELSE q
              IN  IF q2 = 2^MantBits
                  THEN [m |-> 2^(MantBits - 1), e |-> e + k + 1]
                  ELSE [m |-> q2, e |-> e + k]

FromInt(n) == FRound(n, 0, FALSE)

FMul(a, b) ==
    IF a = FNaN \/ b = FNaN THEN FNaN
    ELSE IF a.m = 0 \/ b.m = 0 THEN FZero
    ELSE FRound(a.m * b.m, a.e + b.e, FALSE)

RECURSIVE LongDiv(_, _, _, _)
LongDiv(q, r, den, bits) ==
    IF bits = 0 THEN <<q, r>>
    ELSE LET r2  == 2 * r
             bit == IF r2 >= den THEN 1 ELSE 0
         IN  LongDiv(2 * q + bit, r2 - bit * den, den, bits - 1)

FDiv(a, b) ==
    IF a = FNaN \/ b.m = 0 THEN FNaN
    ELSE IF a.m = 0 THEN FZero
    ELSE LET qr == LongDiv(a.m \div b.m, a.m % b.m, b.m, MantBits + 2)
         IN  FRound(qr[1], a.e - b.e - (MantBits + 2), qr[2] # 0)

FAdd(a, b) ==
    IF a = FNaN \/ b = FNaN THEN FNaN
    ELSE IF a.m = 0 THEN b
    ELSE IF b.m = 0 THEN a
    ELSE LET x  == IF a.e >= b.e THEN a ELSE b
             y  == IF a.e >= b.e THEN b ELSE a
             d  == x.e - y.e
             sh == IF d > MantBits + 3 THEN MantBits + 3 ELSE d
             Y4 == y.m * 4
         IN  FRound(x.m * 4 + (Y4 \div 2^sh), x.e - 2, (Y4 % 2^sh) # 0)

\* a < b (False when either side is nan).
FLt(a, b) ==
    IF a = FNaN \/ b = FNaN THEN FALSE
    ELSE IF a.m = 0 THEN b.m # 0
    ELSE IF b.m = 0 THEN FALSE
    ELSE a.e < b.e \/ (a.e = b.e /\ a.m < b.m)

FLeq(a, b) == ~FLt(b, a)
FGeq(a, b) == ~FLt(a, b)

FMaxPair(a, b) == IF FLt(b, a) THEN a ELSE b

\* Python's builtin min(a, b): the first argument unless the second is smaller.
FMin(a, b) == IF FLt(b, a) THEN b ELSE a

\* pandas Series.max() of a non-empty float column.
RECURSIVE FMaxSeq(_)
FMaxSeq(s) ==
    IF Len(s) = 1 THEN s[1]
    ELSE LET rest == FMaxSeq(Tail(s))
         IN  IF FLt(s[1], rest) THEN rest ELSE s[1]

\* The literals of the source.
F100  == FromInt(100)
FHalf == [m |-> 2^(MantBits - 1), e |-> 0 - MantBits]
F1e6  == FromInt(1000000)

(***************************************************************************)
(* 08_spatial_intersection.py                                              *)
(***************************************************************************)
\* Zone polygons of the input files: axis-parallel rectangles in the
\* projected plane (coordinates in the units of the projected CRS).
Rect(x1, x2, y1, y2) == [type |-> "Polygon", x1 |-> x1, x2 |-> x2, y1 |-> y1, y2 |-> y2]

DiningRects == {Rect(0, 200, 0, 100), Rect(300, 500, 0, 100)}
TaxiRects   == {Rect(0, 150, 0, 100), Rect(150, 300, 0, 100)}
\* n_restaurants of a dining zone (0: the attribute is absent from the file,
\* dining_zone.get('n_restaurants', 0)) and total_weight of a taxi hotspot.
NRestaurantsValues == {0, 41}
TotalWeightValues  == {0, 81}

Range(f) == {f[i] : i \in DOMAIN f}

Max2(a, b) == IF a >= b THEN a ELSE b
Min2(a, b) == IF a <= b THEN a ELSE b

\* shapely: a.intersects(b) (closed sets: touching rectangles intersect).
Intersects(a, b) ==
    /\ Max2(a.x1, b.x1) <= Min2(a.x2, b.x2)
    /\ Max2(a.y1, b.y1) <= Min2(a.y2, b.y2)

\* shapely: a.intersection(b).
Intersection(a, b) ==
    LET x1 == Max2(a.x1, b.x1)
        x2 == Min2(a.x2, b.x2)
        y1 == Max2(a.y1, b.y1)
        y2 == Min2(a.y2, b.y2)
        ty == IF x1 > x2 \/ y1 > y2 THEN "Empty"
              ELSE IF x1 < x2 /\ y1 < y2 THEN "Polygon"
              ELSE IF x1 = x2 /\ y1 = y2 THEN "Point"
              ELSE "LineString"
    IN  [type |-> ty, x1 |-> x1, x2 |-> x2, y1 |-> y1, y2 |-> y2]

\* shapely: geom.area.
Area(g) ==
    IF g.type = "Polygon" THEN FromInt((g.x2 - g.x1) * (g.y2 - g.y1)) ELSE FZero

\* The record appended for one overlapping pair.
PairCandidate(dz, tz) ==
    LET geom == Intersection(dz.geometry, tz.geometry)
        dining_area == Area(dz.geometry)
        taxi_area == Area(tz.geometry)
        intersection_area == Area(geom)
        overlap_ratio_dining == FDiv(intersection_area, dining_area)
        overlap_ratio_taxi == FDiv(intersection_area, taxi_area)
    IN  [dining_cluster_id |-> dz.cluster_id,
         taxi_hotspot_id |-> tz.hotspot_id,
         n_restaurants |-> dz.n_restaurants,
         taxi_weight |-> tz.total_weight,
         dining_area_sqm |-> dining_area,
         taxi_area_sqm |-> taxi_area,
         intersection_area_sqm |-> intersection_area,
         overlap_ratio_dining |-> overlap_ratio_dining,
         overlap_ratio_taxi |-> overlap_ratio_taxi,
         min_overlap_ratio |-> FMin(overlap_ratio_dining, overlap_ratio_taxi),
         geometry |-> geom]

EmitsCandidateTouching(dz, tz) ==
    Intersects(dz.geometry, tz.geometry)

\* The tests of the loop body that decide whether a pair is appended.
EmitsCandidate(dz, tz) ==
    /\ Intersects(dz.geometry, tz.geometry)
    /\ Intersection(dz.geometry, tz.geometry).type # "Empty"
    /\ Intersection(dz.geometry, tz.geometry).type \in {"Polygon", "MultiPolygon"}

\* The nested loop, pair k of Len(gd) * Len(gt) in row-major order.
RECURSIVE ScanPairs(_, _, _)
ScanPairs(gd, gt, k) ==
    IF k > Len(gd) * Len(gt) THEN <<>>
    ELSE LET dz   == gd[((k - 1) \div Len(gt)) + 1]
             tz   == gt[((k - 1) % Len(gt)) + 1]
             rest == ScanPairs(gd, gt, k + 1)
         IN  IF EmitsCandidate(dz, tz) THEN <<PairCandidate(dz, tz)>> \o rest ELSE rest

compute_spatial_intersections(gd, gt) == ScanPairs(gd, gt, 1)

PassesFilterEither(c, min_area, min_ratio) ==
    \/ FGeq(c.intersection_area_sqm, min_area)
    \/ FGeq(c.min_overlap_ratio, min_ratio)

\* mask_area & mask_overlap for one row.
PassesFilter(c, min_area, min_ratio) ==
    /\ FGeq(c.intersection_area_sqm, min_area)
    /\ FGeq(c.min_overlap_ratio, min_ratio)

RECURSIVE FilterRows(_, _, _)
FilterRows(rows, min_area, min_ratio) ==
    IF rows = <<>> THEN <<>>
    ELSE LET rest == FilterRows(Tail(rows), min_area, min_ratio)
         IN  IF PassesFilter(Head(rows), min_area, min_ratio)
             THEN <<Head(rows)>> \o rest ELSE rest

apply_filtering_criteria(gi, min_area, min_ratio) ==
    IF Len(gi) = 0 THEN gi ELSE FilterRows(gi, min_area, min_ratio)

\* count / (intersection_area_sqm / 1_000_000)
Density(count, area) == FDiv(count, FDiv(area, F1e6))

NormalizedScoreNoGuard(d, dmax) == FDiv(FMul(F100, d), dmax)

\* 100 * density / density.max() when the maximum is > 0, else 0.
NormalizedScore(d, dmax) ==
    IF FLt(FZero, dmax) THEN FDiv(FMul(F100, d), dmax) ELSE FZero

\* 0.5 * restaurant_score + 0.5 * taxi_score
PopularityScore(rs, ts) == FAdd(FMul(FHalf, rs), FMul(FHalf, ts))

\* method='min' instead of 'dense': one more than the number of larger entries.
MinRank(scores, i) ==
    1 + Cardinality({k \in DOMAIN scores : FLt(scores[i], scores[k])})

\* pandas Series.rank(ascending=False, method='dense') of entry i: one more
\* than the number of distinct values that are larger.
DenseRank(scores, i) ==
    1 + Cardinality({scores[j] : j \in {k \in DOMAIN scores : FLt(scores[i], scores[k])}})

\* The densities computed after converting the area column to km2 in place.
RECURSIVE AddDensitiesRescalingArea(_)
AddDensitiesRescalingArea(rows) ==
    IF rows = <<>> THEN <<>>
    ELSE LET c == Head(rows)
             km2 == FDiv(c.intersection_area_sqm, F1e6)
         IN  <<[restaurant_density |-> FDiv(FromInt(c.n_restaurants), km2),
                taxi_density |-> FDiv(c.taxi_weight, km2)]
               @@ [c EXCEPT !.intersection_area_sqm = km2]>>
             \o AddDensitiesRescalingArea(Tail(rows))

\* Lines 255-263: the two density columns are added to every row.
RECURSIVE AddDensities(_)
AddDensities(rows) ==
    IF rows = <<>> THEN <<>>
    ELSE LET c == Head(rows) IN
         <<[restaurant_density |-> Density(FromInt(c.n_restaurants), c.intersection_area_sqm),
            taxi_density |-> Density(c.taxi_weight, c.intersection_area_sqm)] @@ c>>
         \o AddDensities(Tail(rows))

\* Lines 265-284: the score columns, given the two column maxima.
RECURSIVE AddScores(_, _, _)
AddScores(rows, rmax, tmax) ==
    IF rows = <<>> THEN <<>>
    ELSE LET c  == Head(rows)
             rs == NormalizedScore(c.restaurant_density, rmax)
             ts == NormalizedScore(c.taxi_density, tmax)
         IN  <<[restaurant_score |-> rs, taxi_score |-> ts,
                popularity_score |-> PopularityScore(rs, ts)] @@ c>>
             \o AddScores(Tail(rows), rmax, tmax)

\* Line 287: the rank column.
AddRanks(rows) ==
    LET pop == [i \in DOMAIN rows |-> rows[i].popularity_score]
    IN  [i \in DOMAIN rows |-> [rank |-> DenseRank(pop, i)] @@ rows[i]]

ScoreAndRank(rows) ==
    AddRanks(AddScores(rows,
                       FMaxSeq([i \in DOMAIN rows |-> rows[i].restaurant_density]),
                       FMaxSeq([i \in DOMAIN rows |-> rows[i].taxi_density])))

calculate_composite_scores(gh) ==
    IF Len(gh) = 0 THEN gh ELSE ScoreAndRank(AddDensities(gh))

\* A key of config.yaml: not in the file, null, or a number.
CfgAbsent == [absent |-> TRUE, isNone |-> FALSE, val |-> FZero]
CfgNone == [absent |-> FALSE, isNone |-> TRUE, val |-> FZero]
CfgNum(f) == [absent |-> FALSE, isNone |-> FALSE, val |-> f]
\* Python's `value or default`: the default when the value is None or 0.
OrDefault(v, default) == IF v.isNone \/ v.val = FZero THEN default ELSE v.val

CfgMinAreaValues  == {CfgAbsent, CfgNone, CfgNum(FZero), CfgNum(FromInt(5000))}
CfgMinRatioValues == {CfgNone, CfgNum(FZero), CfgNum(FDiv(FromInt(3), FromInt(4)))}
DefaultMinArea  == FromInt(10000)
DefaultMinRatio == FDiv(FromInt(15), FromInt(100))

\* All sequences over S of length <= n.
SeqsUpTo(S, n) == UNION {[1..k -> S] : k \in 0..n}

DiningZoneFiles ==
    {[i \in DOMAIN f |-> [cluster_id |-> i - 1, n_restaurants |-> f[i][1], geometry |-> f[i][2]]] :
        f \in SeqsUpTo(NRestaurantsValues \X DiningRects, MaxDining)}
TaxiHotspotFiles ==
    {[i \in DOMAIN f |-> [hotspot_id |-> i - 1, total_weight |-> FromInt(f[i][1]), geometry |-> f[i][2]]] :
        f \in SeqsUpTo(TotalWeightValues \X TaxiRects, MaxTaxi)}

NoFile == [written |-> FALSE, rows |-> <<>>, n_hotspots |-> 0]

\* The stage is not the one being run.
Idle08 ==
    /\ pc08 = "idle"
    /\ config08 = [min_area_sqm |-> CfgNone, min_overlap_ratio |-> CfgNone]
    /\ min_area_sqm = FZero
    /\ min_overlap_ratio = FZero
    /\ gdf_dining = <<>>
    /\ gdf_taxi = <<>>
    /\ gdf_intersections = <<>>
    /\ gdf_hotspots = <<>>
    /\ files08 = [final_hotspots |-> NoFile, analysis |-> NoFile]

Start08 ==
    /\ pc08 = "config"
    /\ config08 \in [min_area_sqm : CfgMinAreaValues, min_overlap_ratio : CfgMinRatioValues]
    /\ min_area_sqm = FZero
    /\ min_overlap_ratio = FZero
    /\ gdf_dining = <<>>
    /\ gdf_taxi = <<>>
    /\ gdf_intersections = <<>>
    /\ gdf_hotspots = <<>>
    /\ files08 = [final_hotspots |-> NoFile, analysis |-> NoFile]

\* main(): the filtering parameters.
\* get_config_value indexes the dictionary key by key: a key that is not in
\* the file raises KeyError before `or` is evaluated.
GetFilterParams ==
    /\ pc08 = "config"
    /\ IF config08.min_area_sqm.absent \/ config08.min_overlap_ratio.absent
       THEN /\ pc08' = "keyerror"
            /\ UNCHANGED <<min_area_sqm, min_overlap_ratio>>
       ELSE /\ min_area_sqm' = OrDefault(config08.min_area_sqm, DefaultMinArea)
            /\ min_overlap_ratio' = OrDefault(config08.min_overlap_ratio, DefaultMinRatio)
            /\ pc08' = "load"
    /\ UNCHANGED <<config08, gdf_dining, gdf_taxi, gdf_intersections, gdf_hotspots, files08, others08>>

\* Step 1: load_spatial_data.
LoadSpatialData ==
    /\ pc08 = "load"
    /\ gdf_dining' \in DiningZoneFiles
    /\ gdf_taxi' \in TaxiHotspotFiles
    /\ pc08' = "intersect"
    /\ UNCHANGED <<config08, min_area_sqm, min_overlap_ratio, gdf_intersections, gdf_hotspots, files08, others08>>

\* Step 2: compute_spatial_intersections.
ComputeIntersections ==
    /\ pc08 = "intersect"
    /\ gdf_intersections' = compute_spatial_intersections(gdf_dining, gdf_taxi)
    /\ pc08' = "filter"
    /\ UNCHANGED <<config08, min_area_sqm, min_overlap_ratio, gdf_dining, gdf_taxi, gdf_hotspots, files08, others08>>

\* Step 3: apply_filtering_criteria.
ApplyFiltering ==
    /\ pc08 = "filter"
    /\ gdf_hotspots' = apply_filtering_criteria(gdf_intersections, min_area_sqm, min_overlap_ratio)
    /\ pc08' = "score"
    /\ UNCHANGED <<config08, min_area_sqm, min_overlap_ratio, gdf_dining, gdf_taxi, gdf_intersections, files08, others08>>

\* Step 4: calculate_composite_scores.
CalculateScores ==
    /\ pc08 = "score"
    /\ gdf_hotspots' = calculate_composite_scores(gdf_hotspots)
    /\ pc08' = "save"
    /\ UNCHANGED <<config08, min_area_sqm, min_overlap_ratio, gdf_dining, gdf_taxi, gdf_intersections, files08, others08>>

\* Step 5: save_outputs. final_hotspots.geojson is written first; the summary
\* then reads gdf_hotspots['intersection_area_sqm'], a column that does not
\* exist when no pair intersected (GeoDataFrame(columns=['geometry'])), so
\* the function raises KeyError before intersection_analysis.json is written.
\* Writing a frame without rows depends on the geopandas of the build: older
\* releases raise ValueError("Cannot write empty DataFrame to file."), newer
\* ones warn and write a file without features.
SaveOutputs08 ==
    /\ pc08 = "save"
    /\ \E to_file_raises \in (IF Len(gdf_hotspots) = 0 THEN BOOLEAN ELSE {FALSE}) :
        LET hot == [written |-> TRUE, rows |-> gdf_hotspots, n_hotspots |-> Len(gdf_hotspots)]
        IN  IF to_file_raises
            THEN /\ files08' = files08
                 /\ pc08' = "failed"
            ELSE IF Len(gdf_intersections) = 0
            THEN /\ files08' = [files08 EXCEPT !.final_hotspots = hot]
                 /\ pc08' = "failed"
            ELSE /\ files08' = [final_hotspots |-> hot, analysis |-> hot]
                 /\ pc08' = "done"
    /\ UNCHANGED <<config08, min_area_sqm, min_overlap_ratio, gdf_dining, gdf_taxi, gdf_intersections, gdf_hotspots, others08>>

Next08 ==
    \/ GetFilterParams
    \/ LoadSpatialData
    \/ ComputeIntersections
    \/ ApplyFiltering
    \/ CalculateScores
    \/ SaveOutputs08

(***************************************************************************)
(* 02_merge_restaurants.py                                                 *)
(***************************************************************************)
\* EPSG:2263 (NAD83 / New York Long Island) is a State Plane system whose
\* unit is the US survey foot: 1 m = 3937/1200 ft. Locations are metres
\* along a street; a projected coordinate is kept in units of 1/1200 ft, so
\* that to_crs and its inverse are exact.
UsFootNum == 3937
UsFootDen == 1200

\* gdf.to_crs("EPSG:2263") and gdf.to_crs("EPSG:4326") on one geometry.
ToProjected(g) == [crs |-> "EPSG:2263", x |-> g.x * UsFootNum]
ToWgs84(g) == [crs |-> "EPSG:4326", x |-> g.x \div UsFootNum]

ProjectFrame(gdf) == [i \in DOMAIN gdf |-> [gdf[i] EXCEPT !.geometry = ToProjected(@)]]
UnprojectFrame(gdf) == [i \in DOMAIN gdf |-> [gdf[i] EXCEPT !.geometry = ToWgs84(@)]]

\* The thresholds main() passes.
DistanceThreshold == 50
NameSimilarityThreshold == 80

\* Euclidean distance of two projected coordinates, in 1/1200 ft.
Distance(c1, c2) == IF c1 >= c2 THEN c1 - c2 ELSE c2 - c1

\* distance < distance_threshold, both in the units of the projected CRS.
WithinThreshold(dist, threshold) == dist < threshold * UsFootDen

\* str.lower() on the characters used in the names.
LowerChar(c) ==
    CASE c = "J" -> "j" [] c = "O" -> "o" [] c = "E" -> "e" [] OTHER -> c
Lower(name) == [i \in DOMAIN name |-> LowerChar(name[i])]

\* Length of the longest common subsequence.
RECURSIVE LCS(_, _)
LCS(a, b) ==
    IF a = <<>> \/ b = <<>> THEN 0
    ELSE IF Head(a) = Head(b) THEN 1 + LCS(Tail(a), Tail(b))
    ELSE Max2(LCS(Tail(a), b), LCS(a, Tail(b)))

\* Python round(): nearest integer to num/den, ties to even.
RoundHalfEven(num, den) ==
    LET q == num \div den
        r == num % den
    IN  IF 2 * r > den \/ (2 * r = den /\ q % 2 = 1) THEN q + 1 ELSE q

\* fuzz.ratio(a, b): 100 * 2*M / (len(a) + len(b)) rounded to an integer,
\* M the matched characters (Levenshtein ratio); 0 when a string is empty.
FuzzRatio(a, b) ==
    IF a = <<>> \/ b = <<>> THEN 0
    ELSE RoundHalfEven(200 * LCS(a, b), Len(a) + Len(b))

\* The indices tree.query(coord2, k=1) may return: the primary rows at the
\* smallest distance (one of them when several are equally near).
NearestSet(coords1, coord2) ==
    {i \in DOMAIN coords1 :
        \A k \in DOMAIN coords1 : Distance(coords1[i], coord2) <= Distance(coords1[k], coord2)}

\* The two tests of the loop body for secondary row row2 and the primary row
\* row1 that the query returned.
IsDuplicate(row1, row2, distance_threshold, name_similarity_threshold) ==
    /\ WithinThreshold(Distance(row1.geometry.x, row2.geometry.x), distance_threshold)
    /\ FuzzRatio(Lower(row1.name), Lower(row2.name)) >= name_similarity_threshold

\* The list `duplicates` after the loop, for the query results nn.
RECURSIVE FindDuplicates(_, _, _, _)
FindDuplicates(gdf1_proj, gdf2_proj, nn, idx2) ==
    IF idx2 > Len(gdf2_proj) THEN <<>>
    ELSE LET rest == FindDuplicates(gdf1_proj, gdf2_proj, nn, idx2 + 1)
         IN  IF IsDuplicate(gdf1_proj[nn[idx2]], gdf2_proj[idx2],
                            DistanceThreshold, NameSimilarityThreshold)
             THEN <<idx2>> \o rest ELSE rest

\* gdf.drop(gdf.index[rows]).reset_index(drop=True)
RECURSIVE DropRows(_, _, _)
DropRows(gdf, rows, i) ==
    IF i > Len(gdf) THEN <<>>
    ELSE IF \E k \in DOMAIN rows : rows[k] = i
         THEN DropRows(gdf, rows, i + 1)
         ELSE <<gdf[i]>> \o DropRows(gdf, rows, i + 1)

ConcatSecondaryFirst(gdf1_proj, gdf2_proj, dups) ==
    UnprojectFrame(DropRows(gdf2_proj, dups, 1) \o gdf1_proj)

\* pd.concat([gdf1_proj, gdf2_unique], ignore_index=True).to_crs("EPSG:4326")
MergeFrames(gdf1_proj, gdf2_proj, dups) ==
    UnprojectFrame(gdf1_proj \o DropRows(gdf2_proj, dups, 1))

\* Input files. A row: name, the latitude/longitude columns (a location in
\* metres along the street), the source tag and the point geometry.
Row(name, x, source) ==
    [name |-> name, location |-> x, source |-> source,
     geometry |-> [crs |-> "EPSG:4326", x |-> x]]

\* The rows of the two files: (name, location).
GoogleRows == {<<<<"J", "o", "e">>, 0>>, <<<<"k", "i", "m">>, 0>>, <<<<"J", "o", "e">>, 20>>}
OsmRows ==
    {<<<<"j", "o", "e">>, 5>>, <<<<"j", "o", "e">>, 10>>, <<<<"j", "o">>, 10>>,
     <<<<"j", "o", "e">>, 40>>, <<<<"j", "o", "e">>, 220>>}

GoogleFiles ==
    {[i \in DOMAIN f |-> Row(f[i][1], f[i][2], "google")] : f \in SeqsUpTo(GoogleRows, MaxPrimary)}
OsmFiles ==
    {[i \in DOMAIN f |-> Row(f[i][1], f[i][2], "osm")] : f \in SeqsUpTo(OsmRows, MaxSecondary)}

Idle02 ==
    /\ pc02 = "idle"
    /\ gdf_google = <<>>
    /\ gdf_osm = <<>>
    /\ nn_idx = <<>>
    /\ duplicates = <<>>
    /\ gdf_merged = <<>>

Start02 ==
    /\ pc02 = "load"
    /\ gdf_google = <<>>
    /\ gdf_osm = <<>>
    /\ nn_idx = <<>>
    /\ duplicates = <<>>
    /\ gdf_merged = <<>>

\* Steps 1-2: load_google_maps_data, load_osm_data, create_geodataframe.
LoadRestaurants ==
    /\ pc02 = "load"
    /\ gdf_google' \in GoogleFiles
    /\ gdf_osm' \in OsmFiles
    /\ pc02' = "dedup"
    /\ UNCHANGED <<nn_idx, duplicates, gdf_merged, others02>>

\* Step 3: deduplicate_restaurants. cKDTree(coords1) raises ValueError on an
\* empty coordinate list (the array is not 2-dimensional).
Deduplicate ==
    /\ pc02 = "dedup"
    /\ IF Len(gdf_google) = 0
       THEN /\ pc02' = "failed"
            /\ UNCHANGED <<nn_idx, duplicates, gdf_merged>>
       ELSE LET gdf1_proj == ProjectFrame(gdf_google)
                gdf2_proj == ProjectFrame(gdf_osm)
                coords1 == [i \in DOMAIN gdf1_proj |-> gdf1_proj[i].geometry.x]
            IN  \E nn \in [DOMAIN gdf2_proj -> DOMAIN gdf1_proj] :
                  /\ \A j \in DOMAIN gdf2_proj : nn[j] \in NearestSet(coords1, gdf2_proj[j].geometry.x)
                  /\ nn_idx' = nn
                  /\ duplicates' = FindDuplicates(gdf1_proj, gdf2_proj, nn, 1)
                  /\ gdf_merged' = MergeFrames(gdf1_proj, gdf2_proj, duplicates')
                  /\ pc02' = "save"
    /\ UNCHANGED <<gdf_google, gdf_osm, others02>>

\* Step 4: save_outputs.
SaveOutputs02 ==
    /\ pc02 = "save"
    /\ pc02' = "done"
    /\ UNCHANGED <<gdf_google, gdf_osm, nn_idx, duplicates, gdf_merged, others02>>

Next02 ==
    \/ LoadRestaurants
    \/ Deduplicate
    \/ SaveOutputs02

(***************************************************************************)
(* Zone geometry: MultiPoint.convex_hull, buffer and area (shapely)        *)
(***************************************************************************)
\* Cross product of the vectors o->a and o->b.
Cross(o, a, b) == (a[1] - o[1]) * (b[2] - o[2]) - (a[2] - o[2]) * (b[1] - o[1])

Abs(n) == IF n >= 0 THEN n ELSE 0 - n

\* p lies on the closed segment from a to b.
OnSegment(p, a, b) ==
    /\ Cross(a, b, p) = 0
    /\ Min2(a[1], b[1]) <= p[1] /\ p[1] <= Max2(a[1], b[1])
    /\ Min2(a[2], b[2]) <= p[2] /\ p[2] <= Max2(a[2], b[2])

\* The corners of the convex hull of the points.
HullVertices(points) ==
    {p \in points : ~\E a, b \in points \ {p} : a # b /\ OnSegment(p, a, b)}

\* The sides of the convex hull: the pairs of corners with all the points on
\* one side (the one segment itself when the points are collinear).
HullEdges(points) ==
    {e \in SUBSET HullVertices(points) :
        /\ Cardinality(e) = 2
        /\ \E a, b \in e :
              /\ a # b
              /\ \A p \in points : Cross(a, b, p) >= 0}

\* Largest r in lo..hi with r * r <= v.
RECURSIVE ISqrtIn(_, _, _)
ISqrtIn(v, lo, hi) ==
    IF lo >= hi THEN lo
    ELSE LET mid == (lo + hi + 1) \div 2
         IN  IF mid * mid <= v THEN ISqrtIn(v, mid, hi) ELSE ISqrtIn(v, lo, mid - 1)

\* Euclidean length of the segment, rounded down to a whole unit.
Length(a, b) ==
    ISqrtIn((a[1] - b[1]) * (a[1] - b[1]) + (a[2] - b[2]) * (a[2] - b[2]), 0, 40000)

RECURSIVE SumLengths(_)
SumLengths(edges) ==
    IF edges = {} THEN 0
    ELSE LET e == CHOOSE e \in edges : TRUE
             a == CHOOSE a \in e : TRUE
             b == CHOOSE b \in e : b # a
         IN  Length(a, b) + SumLengths(edges \ {e})

RECURSIVE SumFan(_, _)
SumFan(o, edges) ==
    IF edges = {} THEN 0
    ELSE LET e == CHOOSE e \in edges : TRUE
             a == CHOOSE a \in e : TRUE
             b == CHOOSE b \in e : b # a
         IN  Abs(Cross(o, a, b)) + SumFan(o, edges \ {e})

\* hull.area: the fan of triangles from one corner.
HullArea(points) ==
    IF points = {} THEN 0
    ELSE SumFan(CHOOSE o \in HullVertices(points) : TRUE, HullEdges(points)) \div 2

\* hull.length: the boundary of a polygon; a segment counts both ways.
HullPerimeter(points) ==
    IF Cardinality(HullVertices(points)) = 2
    THEN 2 * SumLengths(HullEdges(points))
    ELSE SumLengths(HullEdges(points))

\* Area of the 64-sided polygon buffer() draws for a circle of radius 1
\* (quad_segs = 16), in hundredths: 32 * sin(pi / 32) = 3.1366.
CircleArea100 == 314

BufferShrinks(points, distance) ==
    Max2(HullArea(points) - HullPerimeter(points) * distance
            - (CircleArea100 * distance * distance) \div 100, 0)

\* hull.buffer(distance).area for distance >= 0: the hull, a strip of width
\* distance along its boundary and the round corners.
BufferArea(points, distance) ==
    HullArea(points) + HullPerimeter(points) * distance
        + (CircleArea100 * distance * distance) \div 100

\* A WGS84 position is kept as metres east and north of a corner of the
\* city; the positions used are multiples of 1200 m, which EPSG:2263 maps to
\* whole US survey feet.
PointGeometry(loc) == [crs |-> "EPSG:4326", x |-> loc[1], y |-> loc[2]]

\* Point geometries under to_crs("EPSG:2263") and to_crs("EPSG:4326").
ToProjectedPoint(g) ==
    [crs |-> "EPSG:2263", x |-> (g.x * UsFootNum) \div UsFootDen,
                          y |-> (g.y * UsFootNum) \div UsFootDen]
ToWgs84Point(g) ==
    [crs |-> "EPSG:4326", x |-> (g.x * UsFootDen) \div UsFootNum,
                          y |-> (g.y * UsFootDen) \div UsFootNum]

\* The coordinate pair [point.x, point.y] of a geometry.
Coords(g) == <<g.x, g.y>>

\* Values of clustering.dining_zone_buffer / clustering.taxi_hotspot_buffer.
CfgBufferValues == {0, 50}
DefaultDiningZoneBuffer == 100
DefaultHotspotBuffer == 150

\* value or default, for a number: None and 0 are falsy.
OrDefaultInt(value, default) == IF value = 0 THEN default ELSE value

(***************************************************************************)
(* 07_cluster_taxi_dropoffs.py                                             *)
(***************************************************************************)
\* Weights are kept in tenths (15 is the weight 1.5).
Tenths == 10
\* Weights of the input rows: 0.3, 0.5, 1.5, 2.5 (the default temporal
\* weights, and a sum of weights as H3 aggregation produces).
WeightValues == {3, 5, 15, 25}
\* Values of clustering.taxi.min_cluster_size (HDBSCAN requires >= 2).
MinClusterSizeValues == {2, 3}
Noise == 0 - 1

PrepareWeightsNoFloor(weights) ==
    [i \in DOMAIN weights |-> RoundHalfEven(weights[i], Tenths)]

\* prepare_weighted_coordinates: np.maximum(np.round(weights).astype(int), 1)
PrepareWeightsRounded(weights) ==
    [i \in DOMAIN weights |-> Max2(RoundHalfEven(weights[i], Tenths), 1)]

\* main(): np.maximum(np.round(df['weight'].values).astype(int), 1)
MainWeightsRounded(weights) ==
    [i \in DOMAIN weights |-> Max2(RoundHalfEven(weights[i], Tenths), 1)]

\* count copies of x.
RECURSIVE Copies(_, _)
Copies(x, count) == IF count <= 0 THEN <<>> ELSE <<x>> \o Copies(x, count - 1)

\* np.repeat(a, counts, axis=0)
RECURSIVE Repeat(_, _)
Repeat(a, counts) ==
    IF a = <<>> THEN <<>>
    ELSE Copies(Head(a), Head(counts)) \o Repeat(Tail(a), Tail(counts))

Weights(frame) == [i \in DOMAIN frame |-> frame[i].weight]

\* The label arrays HDBSCAN(min_cluster_size=mcs).fit_predict may return for
\* n points: -1 for noise, cluster ids 0..k-1 all in use, and every cluster
\* with at least mcs of the n points.
HdbscanLabelings(n, mcs) ==
    {l \in [1..n -> Noise..((n \div mcs) - 1)] :
        \A c \in 0..((n \div mcs) - 1) :
            LET size == Cardinality({i \in 1..n : l[i] = c})
            IN  /\ size = 0 \/ size >= mcs
                /\ (size > 0 /\ c > 0) => \E i \in 1..n : l[i] = c - 1}

\* Number of entries of group equal to v.
Count(group, v) == Cardinality({i \in DOMAIN group : group[i] = v})

FirstMostCommon(group) ==
    LET best == CHOOSE i \in DOMAIN group :
                   /\ \A k \in DOMAIN group : Count(group, group[k]) <= Count(group, group[i])
                   /\ \A k \in 1..(i - 1) : Count(group, group[k]) < Count(group, group[i])
    IN  group[best]

\* unique, counts = np.unique(label_group, return_counts=True);
\* unique[np.argmax(counts)]: unique is sorted, argmax takes the first maximum.
MostCommon(group) ==
    CHOOSE v \in Range(group) :
        /\ \A u \in Range(group) : Count(group, u) <= Count(group, v)
        /\ \A u \in Range(group) : Count(group, u) = Count(group, v) => v <= u

\* The loop of main() that maps the labels of the copies to the points:
\* point number k, whose copies start after position idx.
RECURSIVE MapLabelsFromStart(_, _, _, _)
MapLabelsFromStart(lab, rounded, k, idx) ==
    IF k > Len(rounded) THEN <<>>
    ELSE <<MostCommon(SubSeq(lab, 1, rounded[k]))>> \o MapLabelsFromStart(lab, rounded, k + 1, idx)

RECURSIVE MapLabels(_, _, _, _)
MapLabels(lab, rounded, k, idx) ==
    IF k > Len(rounded) THEN <<>>
    ELSE LET weight == rounded[k]
             label_group == SubSeq(lab, idx + 1, idx + weight)
         IN  <<MostCommon(label_group)>> \o MapLabels(lab, rounded, k + 1, idx + weight)

\* len(set(labels)) - (1 if -1 in labels else 0)
NClusters(lab) == Cardinality(Range(lab) \ {Noise})

\* The positions of the labels that are not noise.
Clustered(lab) == {i \in DOMAIN lab : lab[i] # Noise}

\* The distinct labels at the positions idx.
LabelSet(lab, idx) == {lab[i] : i \in idx}

\* The size above which the taxi metrics are computed on a random subsample:
\* 100000 in the source, scaled to the sizes explored here.
SampleSize == 3

\* A metric that is reported as absent.
NoneValue == [metric |-> "None", points |-> {}, labels |-> <<>>]

\* silhouette_score and davies_bouldin_score raise ValueError unless
\* 1 < number of labels < number of samples (check_number_of_labels).
ScoresDefined(lab, sample) ==
    /\ 1 < Cardinality(LabelSet(lab, sample))
    /\ Cardinality(LabelSet(lab, sample)) < Cardinality(sample)

\* The value of a metric: a function of the points it is computed on and of
\* their labels.
Score(kind, lab, sample) ==
    [metric |-> kind, points |-> sample, labels |-> [i \in sample |-> lab[i]]]

\* The outcome of a routine that raised.
Raised == [raised |-> TRUE]

\* np.random.choice(len(coords_clustered), 100000, replace=False), no seed:
\* any subset of that size; all clustered points when there are no more.
Samples07(lab) ==
    IF Cardinality(Clustered(lab)) > SampleSize
    THEN {sample \in SUBSET Clustered(lab) : Cardinality(sample) = SampleSize}
    ELSE {Clustered(lab)}

\* calculate_validation_metrics of 07_cluster_taxi_dropoffs.py, for the
\* subsample the random choice made.
calculate_validation_metrics07(lab, sample) ==
    IF Cardinality(LabelSet(lab, Clustered(lab))) > 1
    THEN IF ScoresDefined(lab, sample)
         THEN [raised |-> FALSE,
               silhouette_score |-> Score("silhouette", lab, sample),
               davies_bouldin |-> Score("davies_bouldin", lab, sample),
               n_clusters |-> NClusters(lab),
               n_noise |-> Count(lab, Noise),
               n_total |-> Len(lab)]
         ELSE Raised
    ELSE [raised |-> FALSE,
          silhouette_score |-> NoneValue,
          davies_bouldin |-> NoneValue,
          n_clusters |-> NClusters(lab),
          n_noise |-> Count(lab, Noise),
          n_total |-> Len(lab)]

\* calculate_validation_metrics of 06_cluster_restaurants.py: always on all
\* the clustered points.
calculate_validation_metrics06(lab) ==
    IF Cardinality(LabelSet(lab, Clustered(lab))) > 1
    THEN IF ScoresDefined(lab, Clustered(lab))
         THEN [raised |-> FALSE,
               silhouette_score |-> Score("silhouette", lab, Clustered(lab)),
               davies_bouldin |-> Score("davies_bouldin", lab, Clustered(lab)),
               n_clusters |-> NClusters(lab),
               n_noise |-> Count(lab, Noise),
               n_total |-> Len(lab)]
         ELSE Raised
    ELSE [raised |-> FALSE,
          silhouette_score |-> NoneValue,
          davies_bouldin |-> NoneValue,
          n_clusters |-> NClusters(lab),
          n_noise |-> Count(lab, Noise),
          n_total |-> Len(lab)]

\* HDBSCANClustering.validate of analysis/clustering.py (labels given).
validate(lab) ==
    LET n_clusters == Cardinality(LabelSet(lab, Clustered(lab)))
    IN  IF n_clusters < 2
        THEN [raised |-> FALSE,
              silhouette_score |-> NoneValue,
              davies_bouldin |-> NoneValue,
              n_clusters |-> n_clusters,
              n_noise |-> Count(lab, Noise)]
        ELSE IF ScoresDefined(lab, Clustered(lab))
             THEN [raised |-> FALSE,
                   silhouette_score |-> Score("silhouette", lab, Clustered(lab)),
                   davies_bouldin |-> Score("davies_bouldin", lab, Clustered(lab)),
                   n_clusters |-> n_clusters,
                   n_noise |-> Count(lab, Noise)]
             ELSE Raised

RECURSIVE SumWeightsRounded(_, _)
SumWeightsRounded(frame, members) ==
    IF members = {} THEN 0
    ELSE LET i == CHOOSE i \in members : TRUE
         IN  Max2(RoundHalfEven(frame[i].weight, Tenths), 1) * Tenths
                 + SumWeightsRounded(frame, members \ {i})

\* cluster_points['weight'].sum()
RECURSIVE SumWeights(_, _)
SumWeights(frame, members) ==
    IF members = {} THEN 0
    ELSE LET i == CHOOSE i \in members : TRUE
         IN  frame[i].weight + SumWeights(frame, members \ {i})

\* The ids in increasing order.
RECURSIVE SortedIds(_)
SortedIds(ids) ==
    IF ids = {} THEN <<>>
    ELSE LET lo == CHOOSE c \in ids : \A o \in ids : c <= o
         IN  <<lo>> \o SortedIds(ids \ {lo})

\* create_hotspot_polygons: one hotspot per label of sorted(set(labels)) other
\* than -1, with its member count, the sum of its members' weights and the
\* buffered convex hull of its members.
HotspotPolygons(frame, lab, distance) ==
    LET ids == SortedIds(Range(lab) \ {Noise})
    IN  [k \in DOMAIN ids |->
            LET members == {i \in DOMAIN lab : lab[i] = ids[k]}
                points == {Coords(ToProjectedPoint(PointGeometry(frame[i].dropoff))) : i \in members}
            IN  [hotspot_id |-> ids[k],
                 n_dropoffs |-> Cardinality(members),
                 total_weight |-> SumWeights(frame, members),
                 area_sqm |-> BufferArea(points, distance),
                 geometry |-> [hull |-> HullVertices(points), buffer |-> distance]]]

\* dropoff_lon / dropoff_lat of the rows of the file, by row.
DropoffLocations == <<<<0, 0>>, <<3600, 0>>, <<3600, 4800>>, <<0, 4800>>>>

TaxiFiles ==
    {[i \in DOMAIN f |-> [point |-> i, weight |-> f[i], dropoff |-> DropoffLocations[i]]] :
        f \in SeqsUpTo(WeightValues, MaxPoints)}

\* No metrics computed yet.
NoMetrics == [raised |-> FALSE]

Idle07 ==
    /\ pc07 = "idle"
    /\ min_cluster_size = 0
    /\ buffer_distance07 = 0
    /\ df = <<>>
    /\ coords_weighted = <<>>
    /\ labels = <<>>
    /\ weights_rounded = <<>>
    /\ labels_original = <<>>
    /\ metrics = NoMetrics
    /\ gdf_hotspots07 = <<>>

Start07 ==
    /\ pc07 = "config"
    /\ min_cluster_size = 0
    /\ buffer_distance07 = 0
    /\ df = <<>>
    /\ coords_weighted = <<>>
    /\ labels = <<>>
    /\ weights_rounded = <<>>
    /\ labels_original = <<>>
    /\ metrics = NoMetrics
    /\ gdf_hotspots07 = <<>>

\* main(): the clustering parameters.
GetClusteringParams07 ==
    /\ pc07 = "config"
    /\ min_cluster_size' \in MinClusterSizeValues
    /\ \E buffer \in CfgBufferValues :
          buffer_distance07' = OrDefaultInt(buffer, DefaultHotspotBuffer)
    /\ pc07' = "load"
    /\ UNCHANGED <<df, coords_weighted, labels, weights_rounded, labels_original,
                   metrics, gdf_hotspots07, others07>>

\* Steps 1-2: load_taxi_data (H3 aggregation off).
LoadTaxiData ==
    /\ pc07 = "load"
    /\ df' \in TaxiFiles
    /\ pc07' = "prepare"
    /\ UNCHANGED <<min_cluster_size, buffer_distance07, coords_weighted, labels, weights_rounded, labels_original,
                   metrics, gdf_hotspots07, others07>>

\* Step 3: prepare_weighted_coordinates. With no rows the expansion factor
\* len(coords_weighted)/len(coords_proj) raises ZeroDivisionError.
PrepareWeightedCoordinates ==
    /\ pc07 = "prepare"
    /\ IF Len(df) = 0
       THEN /\ pc07' = "failed"
            /\ UNCHANGED coords_weighted
       ELSE /\ coords_weighted' =
                  Repeat([i \in DOMAIN df |-> df[i].point], PrepareWeightsRounded(Weights(df)))
            /\ pc07' = "cluster"
    /\ UNCHANGED <<min_cluster_size, buffer_distance07, df, labels, weights_rounded, labels_original,
                   metrics, gdf_hotspots07, others07>>

\* Step 4: perform_clustering(coords_weighted, ...).
PerformClustering07 ==
    /\ pc07 = "cluster"
    /\ labels' \in HdbscanLabelings(Len(coords_weighted), min_cluster_size)
    /\ pc07' = "map"
    /\ UNCHANGED <<min_cluster_size, buffer_distance07, df, coords_weighted, weights_rounded, labels_original,
                   metrics, gdf_hotspots07, others07>>

\* main(): map the labels back to the original (unweighted) points.
MapLabelsToOriginal ==
    /\ pc07 = "map"
    /\ weights_rounded' = MainWeightsRounded(Weights(df))
    /\ labels_original' = MapLabels(labels, weights_rounded', 1, 0)
    /\ pc07' = "validate"
    /\ UNCHANGED <<min_cluster_size, buffer_distance07, df, coords_weighted, labels,
                   metrics, gdf_hotspots07, others07>>

\* Step 5: calculate_validation_metrics(coords_weighted, labels).
CalculateValidationMetrics07 ==
    /\ pc07 = "validate"
    /\ \E sample \in Samples07(labels) :
          /\ metrics' = calculate_validation_metrics07(labels, sample)
          /\ pc07' = IF metrics'.raised THEN "failed" ELSE "zones"
    /\ UNCHANGED <<min_cluster_size, buffer_distance07, df, coords_weighted, labels, weights_rounded,
                   labels_original, gdf_hotspots07, others07>>

\* Step 6: create_hotspot_polygons(df, labels_original). With no cluster the
\* frame is built from an empty list and has no columns, so the log line
\* that sums gdf_hotspots['area_sqkm'] raises KeyError.
CreateHotspotPolygons ==
    /\ pc07 = "zones"
    /\ IF NClusters(labels_original) = 0
       THEN /\ pc07' = "failed"
            /\ UNCHANGED gdf_hotspots07
       ELSE /\ gdf_hotspots07' = HotspotPolygons(df, labels_original, buffer_distance07)
            /\ pc07' = "save"
    /\ UNCHANGED <<min_cluster_size, buffer_distance07, df, coords_weighted, labels, weights_rounded,
                   labels_original, metrics, others07>>

\* Step 7: save_outputs.
SaveOutputs07 ==
    /\ pc07 = "save"
    /\ pc07' = "done"
    /\ UNCHANGED <<min_cluster_size, buffer_distance07, df, coords_weighted, labels, weights_rounded,
                   labels_original, metrics, gdf_hotspots07, others07>>

Next07 ==
    \/ GetClusteringParams07
    \/ LoadTaxiData
    \/ PrepareWeightedCoordinates
    \/ PerformClustering07
    \/ MapLabelsToOriginal
    \/ CalculateValidationMetrics07
    \/ CreateHotspotPolygons
    \/ SaveOutputs07

(***************************************************************************)
(* 06_cluster_restaurants.py                                               *)
(***************************************************************************)
RestaurantLocations ==
    {<<0, 0>>, <<3600, 0>>, <<0, 4800>>, <<3600, 4800>>, <<7200, 0>>}

\* The sequences that list the elements of a set of locations in one fixed
\* order (by x, then y), without repetition.
RECURSIVE InOrder(_)
InOrder(locs) ==
    IF locs = {} THEN <<>>
    ELSE LET lo == CHOOSE p \in locs :
                      \A q \in locs : p[1] < q[1] \/ (p[1] = q[1] /\ p[2] <= q[2])
         IN  <<lo>> \o InOrder(locs \ {lo})

\* restaurants_merged.geojson: rows with a name and a point geometry (no
\* rating column).
RestaurantFiles ==
    {[i \in DOMAIN InOrder(locs) |-> [name |-> i, geometry |-> PointGeometry(InOrder(locs)[i])]] :
        locs \in {l \in SUBSET RestaurantLocations : Cardinality(l) <= MaxRestaurants}}

\* The rows of frame whose label is cluster_id.
Members(lab, cluster_id) == {i \in DOMAIN lab : lab[i] = cluster_id}

\* create_dining_zones: one zone per label of sorted(set(labels)) other than
\* -1: the buffered convex hull of the cluster's restaurants.
DiningZones(gdf_proj, lab, distance) ==
    LET ids == SortedIds(Range(lab) \ {Noise})
    IN  [k \in DOMAIN ids |->
            LET points == {Coords(gdf_proj[i].geometry) : i \in Members(lab, ids[k])}
            IN  [cluster_id |-> ids[k],
                 n_restaurants |-> Cardinality(Members(lab, ids[k])),
                 area_sqm |-> BufferArea(points, distance),
                 geometry |-> [hull |-> HullVertices(points), buffer |-> distance]]]

NoFiles06 == [restaurants |-> <<>>, zones |-> <<>>, metrics |-> NoMetrics, written |-> {}]

Idle06 ==
    /\ pc06 = "idle"
    /\ config06 = [min_cluster_size |-> 0, dining_zone_buffer |-> 0]
    /\ buffer_distance06 = 0
    /\ gdf06 = <<>>
    /\ gdf_proj06 = <<>>
    /\ labels06 = <<>>
    /\ metrics06 = NoMetrics
    /\ gdf_zones = <<>>
    /\ files06 = NoFiles06

Start06 ==
    /\ pc06 = "config"
    /\ config06 \in [min_cluster_size : MinClusterSizeValues, dining_zone_buffer : CfgBufferValues]
    /\ buffer_distance06 = 0
    /\ gdf06 = <<>>
    /\ gdf_proj06 = <<>>
    /\ labels06 = <<>>
    /\ metrics06 = NoMetrics
    /\ gdf_zones = <<>>
    /\ files06 = NoFiles06

\* main(): the clustering parameters.
GetClusteringParams06 ==
    /\ pc06 = "config"
    /\ buffer_distance06' = OrDefaultInt(config06.dining_zone_buffer, DefaultDiningZoneBuffer)
    /\ pc06' = "load"
    /\ UNCHANGED <<config06, gdf06, gdf_proj06, labels06, metrics06, gdf_zones, files06, others06>>

\* Step 1: load_restaurant_data.
LoadRestaurantData ==
    /\ pc06 = "load"
    /\ gdf06' \in RestaurantFiles
    /\ pc06' = "prepare"
    /\ UNCHANGED <<config06, buffer_distance06, gdf_proj06, labels06, metrics06, gdf_zones,
                   files06, others06>>

\* Step 2: prepare_clustering_data.
PrepareClusteringData ==
    /\ pc06 = "prepare"
    /\ gdf_proj06' = [i \in DOMAIN gdf06 |->
                         [gdf06[i] EXCEPT !.geometry = ToProjectedPoint(@)]]
    /\ pc06' = "cluster"
    /\ UNCHANGED <<config06, buffer_distance06, gdf06, labels06, metrics06, gdf_zones,
                   files06, others06>>

\* Step 3: perform_clustering, then gdf_proj['cluster'] = labels. The fit
\* raises ValueError on an empty coordinate array.
PerformClustering06 ==
    /\ pc06 = "cluster"
    /\ IF Len(gdf_proj06) = 0
       THEN /\ pc06' = "failed"
            /\ UNCHANGED labels06
       ELSE /\ labels06' \in HdbscanLabelings(Len(gdf_proj06), config06.min_cluster_size)
            /\ pc06' = "validate"
    /\ UNCHANGED <<config06, buffer_distance06, gdf06, gdf_proj06, metrics06, gdf_zones,
                   files06, others06>>

\* Step 4: calculate_validation_metrics(coords, labels).
CalculateValidationMetrics06 ==
    /\ pc06 = "validate"
    /\ metrics06' = calculate_validation_metrics06(labels06)
    /\ pc06' = IF metrics06'.raised THEN "failed" ELSE "zones"
    /\ UNCHANGED <<config06, buffer_distance06, gdf06, gdf_proj06, labels06, gdf_zones,
                   files06, others06>>

\* Step 5: create_dining_zones. With no cluster the frame is built from an
\* empty list and has no columns, so the log line that sums
\* gdf_zones['area_sqkm'] raises KeyError.
CreateDiningZones ==
    /\ pc06 = "zones"
    /\ IF NClusters(labels06) = 0
       THEN /\ pc06' = "failed"
            /\ UNCHANGED gdf_zones
       ELSE /\ gdf_zones' = DiningZones(gdf_proj06, labels06, buffer_distance06)
            /\ pc06' = "save"
    /\ UNCHANGED <<config06, buffer_distance06, gdf06, gdf_proj06, labels06, metrics06,
                   files06, others06>>

\* Step 6: save_outputs: the restaurants with their labels and the zones,
\* both back in WGS84, and the metrics.
SaveOutputs06 ==
    /\ pc06 = "save"
    /\ files06' =
          [restaurants |-> [i \in DOMAIN gdf_proj06 |->
                               [name |-> gdf_proj06[i].name,
                                geometry |-> ToWgs84Point(gdf_proj06[i].geometry),
                                cluster |-> labels06[i]]],
           zones |-> gdf_zones,
           metrics |-> metrics06,
           written |-> {"restaurants_clustered.geojson", "dining_zones.geojson",
                        "clustering_metrics.json"}]
    /\ pc06' = "done"
    /\ UNCHANGED <<config06, buffer_distance06, gdf06, gdf_proj06, labels06, metrics06,
                   gdf_zones, others06>>

Next06 ==
    \/ GetClusteringParams06
    \/ LoadRestaurantData
    \/ PrepareClusteringData
    \/ PerformClustering06
    \/ CalculateValidationMetrics06
    \/ CreateDiningZones
    \/ SaveOutputs06

(***************************************************************************)
(* The validation routines: analysis/clustering.py,                        *)
(* 06_cluster_restaurants.py and 07_cluster_taxi_dropoffs.py               *)
(***************************************************************************)
\* The label arrays a fit with min_cluster_size 2 can hand to validation.
ValidationInputs ==
    UNION {HdbscanLabelings(n, 2) : n \in 1..MaxLabels}

IdleV ==
    /\ pcV = "idle"
    /\ routineV = "none"
    /\ labelsV = <<>>
    /\ resultsV = <<>>

StartV ==
    /\ pcV = "input"
    /\ routineV = "none"
    /\ labelsV = <<>>
    /\ resultsV = <<>>

\* The caller fits the points and picks the routine.
FitLabels ==
    /\ pcV = "input"
    /\ labelsV' \in ValidationInputs
    /\ routineV' \in {"validate", "restaurants", "taxi"}
    /\ pcV' = "run"
    /\ UNCHANGED <<resultsV, othersV>>

\* One run of HDBSCANClustering.validate(X, labels).
RunValidate ==
    /\ pcV = "run"
    /\ routineV = "validate"
    /\ resultsV' = Append(resultsV, validate(labelsV))
    /\ pcV' = IF Len(resultsV') = 2 THEN "done" ELSE "run"
    /\ UNCHANGED <<routineV, labelsV, othersV>>

\* One run of calculate_validation_metrics of 06_cluster_restaurants.py.
RunRestaurantMetrics ==
    /\ pcV = "run"
    /\ routineV = "restaurants"
    /\ resultsV' = Append(resultsV, calculate_validation_metrics06(labelsV))
    /\ pcV' = IF Len(resultsV') = 2 THEN "done" ELSE "run"
    /\ UNCHANGED <<routineV, labelsV, othersV>>

\* One run of calculate_validation_metrics of 07_cluster_taxi_dropoffs.py.
RunTaxiMetrics ==
    /\ pcV = "run"
    /\ routineV = "taxi"
    /\ \E sample \in Samples07(labelsV) :
          resultsV' = Append(resultsV, calculate_validation_metrics07(labelsV, sample))
    /\ pcV' = IF Len(resultsV') = 2 THEN "done" ELSE "run"
    /\ UNCHANGED <<routineV, labelsV, othersV>>

NextV ==
    \/ FitLabels
    \/ RunValidate
    \/ RunRestaurantMetrics
    \/ RunTaxiMetrics

(***************************************************************************)
(* run_pipeline.py                                                         *)
(***************************************************************************)
\* The phases list of main(), in the order of the list.
Phases ==
    << [script |-> "src/data_processing/02_process_taxi_data.py", name |-> "Phase 2: Taxi Data Processing"],
       [script |-> "src/data_processing/02_merge_restaurants.py", name |-> "Phase 3: Restaurant Data Merging"],
       [script |-> "src/data_processing/06_cluster_restaurants.py", name |-> "Phase 6: Restaurant Clustering"],
       [script |-> "src/data_processing/07_cluster_taxi_dropoffs.py", name |-> "Phase 7: Taxi Clustering"],
       [script |-> "src/data_processing/08_spatial_intersection.py", name |-> "Phase 8: Spatial Intersection"] >>

\* check_prerequisites: the files and the directories that must be there.
RequiredFiles == {"config/config.yaml", "data/external/boundaries/nybb.shp"}
RequiredDirs == {"data/raw/taxi", "data/raw/restaurants"}

\* What the working directory holds at each required path.
Workdirs ==
    {f \in [RequiredFiles \cup RequiredDirs -> {"file", "missing", "empty", "nonempty"}] :
        /\ \A p \in RequiredFiles : f[p] \in {"file", "missing"}
        /\ \A p \in RequiredDirs : f[p] \in {"missing", "empty", "nonempty"}}

\* The `missing` list of check_prerequisites.
MissingPrerequisitesExistsOnly(w) ==
    {p \in RequiredFiles \cup RequiredDirs : w[p] = "missing"}
MissingPrerequisites(w) ==
    {p \in RequiredFiles : w[p] = "missing"} \cup {p \in RequiredDirs : w[p] \in {"missing", "empty"}}

\* The exit statuses a child interpreter can end with.
ReturnCodes == 0..MaxReturnCode

\* subprocess.run(..., check=True) raises CalledProcessError, and run_script
\* returns False, exactly when the child's return code is not zero.
RunScriptTreatAllAsSuccess(code) == TRUE
RunScriptSucceeded(code) == code = 0

IdleP ==
    /\ pcP = "idle"
    /\ workdir = [p \in RequiredFiles \cup RequiredDirs |-> "missing"]
    /\ iP = 0
    /\ launched = <<>>
    /\ returncodes = <<>>
    /\ successP = FALSE
    /\ resultsP = <<>>
    /\ exit_status = -1

StartP ==
    /\ pcP = "prerequisites"
    /\ workdir \in Workdirs
    /\ iP = 0
    /\ launched = <<>>
    /\ returncodes = <<>>
    /\ successP = FALSE
    /\ resultsP = <<>>
    /\ exit_status = -1

\* main(): check_prerequisites(), sys.exit(1) when something is missing.
CheckPrerequisites ==
    /\ pcP = "prerequisites"
    /\ IF MissingPrerequisites(workdir) # {}
       THEN /\ exit_status' = 1
            /\ pcP' = "exited"
            /\ iP' = iP
       ELSE /\ exit_status' = exit_status
            /\ pcP' = "loop"
            /\ iP' = 1
    /\ UNCHANGED <<workdir, launched, returncodes, successP, resultsP, othersP>>

\* run_script, up to the start of the child: subprocess.run([python, script]).
RunScript ==
    /\ pcP = "loop"
    /\ iP <= Len(Phases)
    /\ launched' = Append(launched, Phases[iP].script)
    /\ pcP' = "child"
    /\ UNCHANGED <<workdir, iP, returncodes, successP, resultsP, exit_status, othersP>>

\* The child ends with some return code; run_script returns True or False.
ChildExits ==
    /\ pcP = "child"
    /\ \E code \in ReturnCodes :
        /\ returncodes' = Append(returncodes, code)
        /\ successP' = RunScriptSucceeded(code)
    /\ pcP' = "returned"
    /\ UNCHANGED <<workdir, iP, launched, resultsP, exit_status, othersP>>

\* main(): results.append(...); sys.exit(1) on a failure, else the next phase.
RecordResult ==
    /\ pcP = "returned"
    /\ resultsP' = Append(resultsP, [phase |-> Phases[iP].name, success |-> successP])
    /\ IF ~successP
       THEN /\ exit_status' = 1
            /\ pcP' = "exited"
            /\ iP' = iP
       ELSE /\ exit_status' = exit_status
            /\ pcP' = "loop"
            /\ iP' = iP + 1
    /\ UNCHANGED <<workdir, launched, returncodes, successP, othersP>>

\* main(): the loop is over; the summary is logged and main() returns.
PipelineSummary ==
    /\ pcP = "loop"
    /\ iP > Len(Phases)
    /\ exit_status' = 0
    /\ pcP' = "exited"
    /\ UNCHANGED <<workdir, iP, launched, returncodes, successP, resultsP, othersP>>

NextP ==
    \/ CheckPrerequisites
    \/ RunScript
    \/ ChildExits
    \/ RecordResult
    \/ PipelineSummary

(***************************************************************************)
(* 02_process_taxi_data.py                                                 *)
(***************************************************************************)
\* Longitudes and latitudes are in hundredths of a degree, weights in
\* tenths. A data frame is [raised, columns, rows]; every row carries every
\* field, and `columns` says which of them the frame has.

\* taxi_zones.shp, as LocationID -> centroid: 1 is Newark Airport, west of
\* the borough boundaries, 161 is Midtown Center. The ids 264 and 265 of the
\* trip records ("unknown") have no polygon in the file.
ZoneCentroids ==
    [id \in {1, 161} |-> IF id = 1 THEN [lon |-> -7417, lat |-> 4069]
                                   ELSE [lon |-> -7398, lat |-> 4076]]

\* nybb.shp: the union of the boroughs, here the box that holds it.
NycPolygon == [min_lon |-> -7405, max_lon |-> -7370, min_lat |-> 4050, max_lat |-> 4092]

\* filter_to_nyc_bounds: "NYC rough bounds: lat [40.5, 40.92], lon [-74.3, -73.7]".
RoughBounds == [min_lon |-> -7430, max_lon |-> -7370, min_lat |-> 4050, max_lat |-> 4092]

\* temporal.weights of config.yaml (the values are also the defaults of
\* weights.get), in tenths.
TemporalWeights ==
    [weekend_dinner |-> 15, weekday_dinner |-> 10, weekday_lunch |-> 8, breakfast |-> 5,
     late_night_weekend |-> 7, late_night_weekday |-> 4, off_peak |-> 3]

\* One trip record of a raw monthly file.
Trip(month, day_of_week, hour, location_id) ==
    [dropoff_datetime |-> [month |-> month, day_of_week |-> day_of_week, hour |-> hour],
     dropoff_location_id |-> location_id,
     has_coords |-> FALSE, dropoff_lon |-> 0, dropoff_lat |-> 0,
     hour |-> 0, day_of_week |-> 0, is_weekend |-> FALSE, weight |-> 0]

\* The monthly files a directory can hold for month k: an unreadable file,
\* a file without a drop-off time column, yellow (tpep) and green (lpep)
\* files with dining and non-dining trips, a file whose trips all end in an
\* unknown zone, an empty file, a file without any dining-hour trip, a
\* file whose only trip ends at Newark Airport and a file with lunch and
\* late-night trips.
ParquetFilesOfMonth(k) ==
    { [name |-> k, readable |-> FALSE, columns |-> {}, rows |-> <<>>],
      [name |-> k, readable |-> TRUE, columns |-> {"tpep_pickup_datetime", "DOLocationID"},
       rows |-> <<Trip(k, 1, 19, 161)>>],
      [name |-> k, readable |-> TRUE, columns |-> {"tpep_dropoff_datetime", "DOLocationID"},
       rows |-> <<Trip(k, 1, 19, 161), Trip(k, 1, 15, 161)>>],
      [name |-> k, readable |-> TRUE, columns |-> {"lpep_dropoff_datetime", "DOLocationID"},
       rows |-> <<Trip(k, 5, 19, 161), Trip(k, 5, 8, 264), Trip(k, 5, 8, 161)>>],
      [name |-> k, readable |-> TRUE, columns |-> {"tpep_dropoff_datetime", "DOLocationID"},
       rows |-> <<Trip(k, 1, 19, 264)>>],
      [name |-> k, readable |-> TRUE, columns |-> {"tpep_dropoff_datetime", "DOLocationID"},
       rows |-> <<>>],
      [name |-> k, readable |-> TRUE, columns |-> {"tpep_dropoff_datetime", "DOLocationID"},
       rows |-> <<Trip(k, 2, 15, 161)>>],
      [name |-> k, readable |-> TRUE, columns |-> {"tpep_dropoff_datetime", "DOLocationID"},
       rows |-> <<Trip(k, 2, 12, 1)>>],
      [name |-> k, readable |-> TRUE, columns |-> {"tpep_dropoff_datetime", "DOLocationID"},
       rows |-> <<Trip(k, 4, 12, 161), Trip(k, 2, 13, 161), Trip(k, 6, 23, 161),
                  Trip(k, 0, 0, 161), Trip(k, 3, 11, 161)>>] }

\* The contents of data/raw/taxi: at most one file per month.
TaxiDirs ==
    UNION {{d \in [months -> UNION {ParquetFilesOfMonth(k) : k \in months}] :
                \A k \in months : d[k].name = k} : months \in SUBSET (1..MaxFiles)}

\* sorted(data_path.glob("*.parquet")): the files in the order of their names.
RECURSIVE SortedFiles(_)
SortedFiles(d) ==
    IF DOMAIN d = {} THEN <<>>
    ELSE LET first == CHOOSE k \in DOMAIN d : \A j \in DOMAIN d : k <= j
         IN  <<d[first]>> \o SortedFiles([j \in DOMAIN d \ {first} |-> d[j]])

RaisedT == [raised |-> TRUE, columns |-> {}, rows |-> <<>>]
Frame(columns, rows) == [raised |-> FALSE, columns |-> columns, rows |-> rows]

\* pd.read_parquet(file)
read_parquet(file) ==
    IF file.readable THEN Frame(file.columns, file.rows) ELSE RaisedT

\* column_mappings of standardize_columns.
RenameColumn(c) ==
    CASE c = "tpep_dropoff_datetime" -> "dropoff_datetime"
      [] c = "lpep_dropoff_datetime" -> "dropoff_datetime"
      [] c = "DOLocationID" -> "dropoff_location_id"
      [] c = "tpep_pickup_datetime" -> "pickup_datetime"
      [] c = "lpep_pickup_datetime" -> "pickup_datetime"
      [] OTHER -> c

standardize_columns(frame) ==
    LET columns == {RenameColumn(c) : c \in frame.columns}
    IN  IF "dropoff_datetime" \notin columns THEN RaisedT
        ELSE Frame(columns, frame.rows)

\* convert_ids_to_coords: the left merge with the zone centroids.
WithCentroid(row) ==
    IF row.dropoff_location_id \in DOMAIN ZoneCentroids
    THEN [row EXCEPT !.has_coords = TRUE,
                     !.dropoff_lon = ZoneCentroids[row.dropoff_location_id].lon,
                     !.dropoff_lat = ZoneCentroids[row.dropoff_location_id].lat]
    ELSE row

convert_ids_to_coords(frame, zones_readable) ==
    IF ~zones_readable \/ "dropoff_location_id" \notin frame.columns THEN RaisedT
    ELSE Frame(frame.columns \cup {"dropoff_lon", "dropoff_lat"}, [i \in 1..Len(frame.rows) |-> WithCentroid(frame.rows[i])])

InBox(row, box) ==
    /\ row.dropoff_lat >= box.min_lat /\ row.dropoff_lat <= box.max_lat
    /\ row.dropoff_lon >= box.min_lon /\ row.dropoff_lon <= box.max_lon

\* filter_to_nyc_bounds: dropna, the rough bounds, within(nyc_polygon); the
\* log line after the filter divides by len(df).
InNyc(row) == row.has_coords /\ InBox(row, RoughBounds) /\ InBox(row, NycPolygon)

filter_to_nyc_bounds(frame) ==
    IF Len(frame.rows) = 0 THEN RaisedT
    ELSE Frame(frame.columns, SelectSeq(frame.rows, InNyc))

\* filter_dining_hours: the time features and the dining mask; the log line
\* after the filter divides by len(df).
WithTimeFeatures(row) ==
    [row EXCEPT !.hour = row.dropoff_datetime.hour,
                !.day_of_week = row.dropoff_datetime.day_of_week,
                !.is_weekend = row.dropoff_datetime.day_of_week \in {4, 5, 6}]

IsDiningHour(row) ==
    \/ row.hour >= 7 /\ row.hour < 10
    \/ row.hour >= 11 /\ row.hour < 14
    \/ row.hour >= 17 /\ row.hour < 22
    \/ row.hour >= 22 \/ row.hour < 1

filter_dining_hours(frame) ==
    IF Len(frame.rows) = 0 THEN RaisedT
    ELSE Frame(frame.columns \cup {"hour", "day_of_week", "is_weekend"},
               SelectSeq([i \in 1..Len(frame.rows) |-> WithTimeFeatures(frame.rows[i])], IsDiningHour))

\* apply_temporal_weights: the masks are assigned in the order of the
\* source, a later assignment overwriting an earlier one.
TemporalWeight(row) ==
    LET late == row.hour >= 22 \/ row.hour < 1
        w0 == TemporalWeights.off_peak
        w1 == IF row.is_weekend /\ row.hour >= 18 /\ row.hour < 22 THEN TemporalWeights.weekend_dinner ELSE w0
        w2 == IF ~row.is_weekend /\ row.hour >= 18 /\ row.hour < 22 THEN TemporalWeights.weekday_dinner ELSE w1
        w3 == IF ~row.is_weekend /\ row.hour >= 12 /\ row.hour < 14 THEN TemporalWeights.weekday_lunch ELSE w2
        w4 == IF row.hour >= 7 /\ row.hour < 10 THEN TemporalWeights.breakfast ELSE w3
        w5 == IF row.is_weekend /\ late THEN TemporalWeights.late_night_weekend ELSE w4
    IN  IF ~row.is_weekend /\ late THEN TemporalWeights.late_night_weekday ELSE w5

WithWeight(row) == [row EXCEPT !.weight = TemporalWeight(row)]

apply_temporal_weights(frame) ==
    Frame(frame.columns \cup {"weight"}, [i \in 1..Len(frame.rows) |-> WithWeight(frame.rows[i])])

\* The body of the try block of main() on one file: an exception of a step
\* skips the steps after it.
ProcessBatchFile(file, zones_readable) ==
    LET df0 == read_parquet(file)
        df1 == IF df0.raised THEN df0 ELSE standardize_columns(df0)
        df2 == IF df1.raised THEN df1 ELSE convert_ids_to_coords(df1, zones_readable)
        df3 == IF df2.raised THEN df2 ELSE filter_to_nyc_bounds(df2)
        df4 == IF df3.raised THEN df3 ELSE filter_dining_hours(df3)
    IN  IF df4.raised THEN df4 ELSE apply_temporal_weights(df4)

\* The loop index after the except clause: `continue` goes to the next file.
AfterFailedBatchBreak(i, n) == n + 1
AfterFailedBatch(i, n) == i + 1

\* pd.concat(processed_dfs, ignore_index=True)
RECURSIVE Concat(_)
Concat(dfs) == IF dfs = <<>> THEN <<>> ELSE Head(dfs).rows \o Concat(Tail(dfs))

\* save_outputs: df[columns_to_save]
SavedRow(row) ==
    [dropoff_datetime |-> row.dropoff_datetime, dropoff_lon |-> row.dropoff_lon,
     dropoff_lat |-> row.dropoff_lat, hour |-> row.hour, day_of_week |-> row.day_of_week,
     is_weekend |-> row.is_weekend, weight |-> row.weight]

ColumnsToSave(rows) == [i \in 1..Len(rows) |-> SavedRow(rows[i])]

NoFilesT == [parquet |-> [written |-> FALSE, rows |-> <<>>], summary |-> [written |-> FALSE, total_trips |-> 0]]

IdleT ==
    /\ pcT = "idle"
    /\ taxi_dir = <<>>
    /\ taxi_zones_readable = FALSE
    /\ parquet_files = <<>>
    /\ iT = 0
    /\ processed_dfs = <<>>
    /\ logT = <<>>
    /\ final_df = <<>>
    /\ filesT = NoFilesT

StartT ==
    /\ pcT = "find"
    /\ taxi_dir \in TaxiDirs
    /\ taxi_zones_readable \in BOOLEAN
    /\ parquet_files = <<>>
    /\ iT = 0
    /\ processed_dfs = <<>>
    /\ logT = <<>>
    /\ final_df = <<>>
    /\ filesT = NoFilesT

\* main(), step 1: the files of the directory, sorted.
FindTaxiFiles ==
    /\ pcT = "find"
    /\ parquet_files' = SortedFiles(taxi_dir)
    /\ iT' = 1
    /\ pcT' = "loop"
    /\ UNCHANGED <<taxi_dir, taxi_zones_readable, processed_dfs, logT, final_df, filesT, othersT>>

\* main(): one iteration of the loop over the files.
ProcessBatch ==
    /\ pcT = "loop"
    /\ iT <= Len(parquet_files)
    /\ LET frame == ProcessBatchFile(parquet_files[iT], taxi_zones_readable)
       IN  IF frame.raised
           THEN /\ logT' = Append(logT, [file |-> parquet_files[iT].name, batch |-> "FAILED"])
                /\ processed_dfs' = processed_dfs
                /\ iT' = AfterFailedBatch(iT, Len(parquet_files))
           ELSE /\ logT' = Append(logT, [file |-> parquet_files[iT].name, batch |-> "COMPLETED"])
                /\ processed_dfs' = Append(processed_dfs, frame)
                /\ iT' = iT + 1
    /\ UNCHANGED <<pcT, taxi_dir, taxi_zones_readable, parquet_files, final_df, filesT, othersT>>

\* main(): after the loop, return when nothing was processed, else concat.
ConcatenateBatches ==
    /\ pcT = "loop"
    /\ iT > Len(parquet_files)
    /\ IF processed_dfs = <<>>
       THEN /\ final_df' = final_df
            /\ pcT' = "done"
       ELSE /\ final_df' = Concat(processed_dfs)
            /\ pcT' = "save"
    /\ UNCHANGED <<taxi_dir, taxi_zones_readable, parquet_files, iT, processed_dfs, logT, filesT, othersT>>

\* save_outputs(final_df, output_dir)
SaveOutputsT ==
    /\ pcT = "save"
    /\ filesT' = [parquet |-> [written |-> TRUE, rows |-> ColumnsToSave(final_df)],
                  summary |-> [written |-> TRUE, total_trips |-> Len(final_df)]]
    /\ pcT' = "done"
    /\ UNCHANGED <<taxi_dir, taxi_zones_readable, parquet_files, iT, processed_dfs, logT, final_df, othersT>>

NextT ==
    \/ FindTaxiFiles
    \/ ProcessBatch
    \/ ConcatenateBatches
    \/ SaveOutputsT

(***************************************************************************)
(* app.py                                                                  *)
(***************************************************************************)
\* A hotspot centroid and the user location are positions along one street,
\* in units of 100 m. to_crs("EPSG:2263") gives US survey feet
\* (100 m = 3937/12 ft); a projected coordinate is kept in units of 1/12 ft.
\* Scores are exact fractions [num, den].

\* The rows a final_hotspots.geojson can hold.
HotspotRows ==
    { [centroid |-> 0, popularity_score |-> 100, n_restaurants |-> 5],
      [centroid |-> 5, popularity_score |-> 50, n_restaurants |-> 3],
      [centroid |-> 5, popularity_score |-> 0, n_restaurants |-> 1],
      [centroid |-> 30, popularity_score |-> 100, n_restaurants |-> 2] }

\* data/processed/final_hotspots.geojson: absent, or a file with its rows.
HotspotFiles ==
    {[exists |-> FALSE, rows |-> <<>>]} \cup
    {[exists |-> TRUE, rows |-> r] : r \in UNION {[1..n -> HotspotRows] : n \in 0..MaxHotspots}}

\* hotspots_data = None
NotLoaded == [loaded |-> FALSE, rows |-> <<>>]

\* A key of the JSON body: absent, or present with a value.
Absent == [given |-> FALSE, value |-> 0]
Given(v) == [given |-> TRUE, value |-> v]

\* data.get(key, default)
GetOr(field, default) == IF field.given THEN field.value ELSE default

\* The requests a client sends.
Requests ==
    {[path |-> p, lat |-> Absent, lon |-> Absent, max_distance_km |-> Absent, limit |-> Absent] :
        p \in {"/api/hotspots", "/api/stats"}} \cup
    [path : {"/api/recommend"},
     lat : {Absent, Given(4076)},
     lon : {Absent, Given(0), Given(5)},
     max_distance_km : {Absent, Given(0), Given(10)},
     limit : {Absent, Given(1), Given(-1)}]

NoRequest == [path |-> "none", lat |-> Absent, lon |-> Absent, max_distance_km |-> Absent, limit |-> Absent]

\* The responses: jsonify(...) with a status, or Flask's answer to an
\* exception raised by the handler.
Response(status, kind, recommendations, total_found) ==
    [status |-> status, kind |-> kind, recommendations |-> recommendations, total_found |-> total_found]
NoResponse == Response(0, "none", <<>>, Absent)
InternalServerError == Response(500, "exception", <<>>, Absent)

\* user_point_proj.distance(centroid), in 1/12 ft.
DistanceProj(user_x, centroid) ==
    LET a == user_x * UsFootNum
        b == centroid * UsFootNum
    IN  IF a >= b THEN a - b ELSE b - a

\* distance_km <= max_distance_km, with distance_km = distance / 1000.0.
WithinMaxDistance(distance, max_distance_km) == distance <= max_distance_km * 12000

\* hotspots_with_dist[hotspots_with_dist['distance_km'] <= max_distance_km]
RECURSIVE Nearby(_, _, _)
Nearby(rows, user_x, max_distance_km) ==
    IF rows = <<>> THEN <<>>
    ELSE LET h == Head(rows)
             dist == DistanceProj(user_x, h.centroid)
         IN  (IF WithinMaxDistance(dist, max_distance_km)
              THEN <<[centroid |-> h.centroid, popularity_score |-> h.popularity_score,
                      n_restaurants |-> h.n_restaurants, distance |-> dist]>>
              ELSE <<>>) \o Nearby(Tail(rows), user_x, max_distance_km)

\* hotspots_nearby['distance_km'].max()
RECURSIVE MaxDistance(_)
MaxDistance(rows) ==
    IF rows = <<>> THEN 0
    ELSE LET m == MaxDistance(Tail(rows))
         IN  IF Head(rows).distance >= m THEN Head(rows).distance ELSE m

\* 100 * (1 - distance_km / max_dist), or 100 when max_dist is 0; then
\* 0.6 * popularity_score + 0.4 * accessibility_score.
WithScores(row, max_dist) ==
    IF max_dist > 0
    THEN [centroid |-> row.centroid, popularity_score |-> row.popularity_score,
          n_restaurants |-> row.n_restaurants, distance |-> row.distance,
          accessibility_score |-> [num |-> 100 * (max_dist - row.distance), den |-> max_dist],
          recommendation_score |-> [num |-> 6 * row.popularity_score * max_dist + 400 * (max_dist - row.distance),
                                    den |-> 10 * max_dist]]
    ELSE [centroid |-> row.centroid, popularity_score |-> row.popularity_score,
          n_restaurants |-> row.n_restaurants, distance |-> row.distance,
          accessibility_score |-> [num |-> 100, den |-> 1],
          recommendation_score |-> [num |-> 6 * row.popularity_score + 400, den |-> 10]]

\* sort_values('recommendation_score', ascending=False): the rows in some
\* order of non-increasing score (rows of equal score in any order).
SortedByScore(rows) ==
    {s \in [1..Len(rows) -> Range(rows)] :
        /\ \A v \in Range(rows) :
            Cardinality({i \in 1..Len(rows) : s[i] = v}) = Cardinality({i \in 1..Len(rows) : rows[i] = v})
        /\ \A i \in 1..(Len(rows) - 1) : s[i].recommendation_score.num >= s[i + 1].recommendation_score.num}

\* DataFrame.head(n): the first n rows, or all but the last -n rows.
HeadRows(rows, n) ==
    LET k == IF n >= 0 THEN Min2(n, Len(rows)) ELSE Max2(Len(rows) + n, 0)
    IN  SubSeq(rows, 1, k)

\* get_recommendations: user_lat is None or user_lon is None
MissingLatLonBoth(req) == ~req.lat.given /\ ~req.lon.given
MissingLatLon(req) == ~req.lat.given \/ ~req.lon.given

\* get_recommendations, after the lat/lon check: the responses it can give.
Recommendations(rows, user_x, max_distance_km, limit) ==
    IF Len(rows) = 0 THEN {InternalServerError}
    ELSE LET nearby == Nearby(rows, user_x, max_distance_km)
             max_dist == MaxDistance(nearby)
             scored == [i \in 1..Len(nearby) |-> WithScores(nearby[i], max_dist)]
         IN  IF Len(nearby) = 0 THEN {Response(200, "none in range", <<>>, Absent)}
             ELSE {Response(200, "recommendations", HeadRows(s, limit), Given(Len(HeadRows(s, limit)))) :
                        s \in SortedByScore(scored)}

IdleA ==
    /\ pcA = "idle"
    /\ hotspots_file = [exists |-> FALSE, rows |-> <<>>]
    /\ hotspots_data = NotLoaded
    /\ requestA = NoRequest
    /\ responseA = NoResponse

StartA ==
    /\ pcA = "startup"
    /\ hotspots_file \in HotspotFiles
    /\ hotspots_data = NotLoaded
    /\ requestA = NoRequest
    /\ responseA = NoResponse

\* __main__: load_hotspots(), then app.run.
LoadHotspots ==
    /\ pcA = "startup"
    /\ hotspots_data' = IF hotspots_file.exists
                        THEN [loaded |-> TRUE, rows |-> hotspots_file.rows]
                        ELSE hotspots_data
    /\ pcA' = "serving"
    /\ UNCHANGED <<hotspots_file, requestA, responseA, othersA>>

\* GET /api/hotspots
GetAllHotspots ==
    /\ pcA = "serving"
    /\ \E req \in Requests :
        /\ req.path = "/api/hotspots"
        /\ requestA' = req
    /\ responseA' = IF ~hotspots_data.loaded
                    THEN Response(500, "No data loaded", <<>>, Absent)
                    ELSE Response(200, "geojson", <<>>, Given(Len(hotspots_data.rows)))
    /\ UNCHANGED <<pcA, hotspots_file, hotspots_data, othersA>>

\* POST /api/recommend
GetRecommendations ==
    /\ pcA = "serving"
    /\ \E req \in Requests :
        /\ req.path = "/api/recommend"
        /\ requestA' = req
        /\ IF ~hotspots_data.loaded
           THEN responseA' = Response(500, "No data loaded", <<>>, Absent)
           ELSE IF MissingLatLon(req)
           THEN responseA' = Response(400, "Missing lat/lon", <<>>, Absent)
           ELSE responseA' \in Recommendations(hotspots_data.rows, req.lon.value,
                                               GetOr(req.max_distance_km, 2), GetOr(req.limit, 10))
    /\ UNCHANGED <<pcA, hotspots_file, hotspots_data, othersA>>

\* GET /api/stats: the sums read columns that a file without features does
\* not have.
GetStats ==
    /\ pcA = "serving"
    /\ \E req \in Requests :
        /\ req.path = "/api/stats"
        /\ requestA' = req
    /\ responseA' = IF ~hotspots_data.loaded
                    THEN Response(500, "No data loaded", <<>>, Absent)
                    ELSE IF Len(hotspots_data.rows) = 0
                    THEN InternalServerError
                    ELSE Response(200, "stats", <<>>, Given(Len(hotspots_data.rows)))
    /\ UNCHANGED <<pcA, hotspots_file, hotspots_data, othersA>>

NextA ==
    \/ LoadHotspots
    \/ GetAllHotspots
    \/ GetRecommendations
    \/ GetStats

(***************************************************************************)
(* run_pipeline.py with 02_process_taxi_data.py as the child of its first  *)
(* phase                                                                   *)
(***************************************************************************)
\* The child of the first phase takes the steps of 02_process_taxi_data.py.
TaxiChildRuns ==
    /\ pcP = "child"
    /\ iP = 1
    /\ NextT

\* main() of 02_process_taxi_data.py has returned, after save_outputs or
\* after "No data was successfully processed. Exiting."; the interpreter
\* ends with return code 0 and run_script returns True.
TaxiChildExits ==
    /\ pcP = "child"
    /\ iP = 1
    /\ pcT = "done"
    /\ returncodes' = Append(returncodes, 0)
    /\ successP' = RunScriptSucceeded(0)
    /\ pcP' = "returned"
    /\ UNCHANGED <<workdir, iP, launched, resultsP, exit_status, othersP>>

\* The children of the later phases end with some return code.
LaterChildExits ==
    /\ iP > 1
    /\ ChildExits

StartRun ==
    /\ StartP
    /\ MissingPrerequisites(workdir) = {}
    /\ StartT

NextRun ==
    \/ CheckPrerequisites
    \/ RunScript
    \/ TaxiChildRuns
    \/ TaxiChildExits
    \/ LaterChildExits
    \/ RecordResult
    \/ PipelineSummary

(***************************************************************************)
(* Specifications: one per stage script, the other stages not running.     *)
(***************************************************************************)
Init08 == Start08 /\ Idle02 /\ Idle07 /\ Idle06 /\ IdleV /\ IdleP /\ IdleT /\ IdleA
Spec08 == Init08 /\ [][Next08]_vars

Init02 == Start02 /\ Idle08 /\ Idle07 /\ Idle06 /\ IdleV /\ IdleP /\ IdleT /\ IdleA
Spec02 == Init02 /\ [][Next02]_vars

Init07 == Start07 /\ Idle08 /\ Idle02 /\ Idle06 /\ IdleV /\ IdleP /\ IdleT /\ IdleA
Spec07 == Init07 /\ [][Next07]_vars

InitV == StartV /\ Idle08 /\ Idle02 /\ Idle07 /\ Idle06 /\ IdleP /\ IdleT /\ IdleA
SpecV == InitV /\ [][NextV]_vars

Init06 == Start06 /\ Idle08 /\ Idle02 /\ Idle07 /\ IdleV /\ IdleP /\ IdleT /\ IdleA
Spec06 == Init06 /\ [][Next06]_vars

\* Either clustering script is run.
InitP == StartP /\ Idle08 /\ Idle02 /\ Idle07 /\ Idle06 /\ IdleV /\ IdleT /\ IdleA
SpecPipeline == InitP /\ [][NextP]_vars

InitT == StartT /\ Idle08 /\ Idle02 /\ Idle07 /\ Idle06 /\ IdleV /\ IdleP /\ IdleA
SpecTaxi == InitT /\ [][NextT]_vars

InitRun == StartRun /\ Idle08 /\ Idle02 /\ Idle07 /\ Idle06 /\ IdleV /\ IdleA
SpecRun == InitRun /\ [][NextRun]_vars

InitA == StartA /\ Idle08 /\ Idle02 /\ Idle07 /\ Idle06 /\ IdleV /\ IdleP /\ IdleT
SpecApp == InitA /\ [][NextA]_vars

InitCluster == (Init06 \/ Init07)
NextCluster == Next06 \/ Next07
SpecCluster == InitCluster /\ [][NextCluster]_vars

(***************************************************************************)
(* Properties of 08_spatial_intersection.py                                *)
(***************************************************************************)
\* apply_filtering_criteria has returned, calculate_composite_scores has not run.
Filtered08 == pc08 = "score"
\* calculate_composite_scores has returned a non-empty, scored hotspot set.
Scored08 == pc08 \in {"save", "done"} /\ Len(gdf_hotspots) > 0

\* C1: apply_filtering_criteria retains a candidate if and only if
\* intersection_area_sqm >= min_area_sqm AND min_overlap_ratio >= threshold
\* (both inclusive), nothing else is returned, and the candidate with
\* intersection area 5,000 and ratio 0.25 is rejected under 10,000 / 0.15.
C1_FilterIsConjunction ==
    Filtered08 =>
        /\ Range(gdf_hotspots) \subseteq Range(gdf_intersections)
        /\ \A j \in DOMAIN gdf_intersections :
              LET c == gdf_intersections[j] IN
              /\ (c \in Range(gdf_hotspots)) <=>
                    (/\ ~FLt(c.intersection_area_sqm, min_area_sqm)
                     /\ ~FLt(c.min_overlap_ratio, min_overlap_ratio))
              /\ (/\ min_area_sqm = FromInt(10000)
                  /\ min_overlap_ratio = FDiv(FromInt(15), FromInt(100))
                  /\ c.intersection_area_sqm = FromInt(5000)
                  /\ c.min_overlap_ratio = FDiv(FromInt(1), FromInt(4)))
                 => c \notin Range(gdf_hotspots)

\* The scenario of C1 has happened: areas 20,000 / 15,000, intersection 5,000,
\* ratio 0.25 >= 0.15, thresholds 10,000 / 0.15, and a second candidate passed.
C1_Witness ==
    /\ Filtered08
    /\ min_area_sqm = FromInt(10000)
    /\ min_overlap_ratio = FDiv(FromInt(15), FromInt(100))
    /\ \E j \in DOMAIN gdf_intersections :
          /\ gdf_intersections[j].dining_area_sqm = FromInt(20000)
          /\ gdf_intersections[j].taxi_area_sqm = FromInt(15000)
          /\ gdf_intersections[j].intersection_area_sqm = FromInt(5000)
          /\ gdf_intersections[j].min_overlap_ratio = FDiv(FromInt(1), FromInt(4))
          /\ gdf_intersections[j] \notin Range(gdf_hotspots)
    /\ Len(gdf_hotspots) > 0

\* C2: rank is a dense ranking on descending popularity_score: equal rank
\* iff equal score, a strictly higher score has a strictly smaller rank, the
\* best score has rank 1, and the ranks used are exactly 1..k for k distinct
\* scores.
C2_RankIsDense ==
    Scored08 =>
        LET idx == DOMAIN gdf_hotspots
            pop(i) == gdf_hotspots[i].popularity_score
            rk(i)  == gdf_hotspots[i].rank
        IN  /\ \A i, j \in idx : (rk(i) = rk(j)) <=> (pop(i) = pop(j))
            /\ \A i, j \in idx : FLt(pop(j), pop(i)) => rk(i) < rk(j)
            /\ \A i \in idx : (\A j \in idx : ~FLt(pop(i), pop(j))) => rk(i) = 1
            /\ {rk(i) : i \in idx} = 1..Cardinality({pop(i) : i \in idx})

\* Three or more hotspots were ranked, two tie for the best score and another
\* one scores lower.
C2_Witness ==
    /\ Scored08
    /\ Len(gdf_hotspots) >= 3
    /\ \E i, j, k \in DOMAIN gdf_hotspots :
          /\ i # j
          /\ gdf_hotspots[i].popularity_score = gdf_hotspots[j].popularity_score
          /\ gdf_hotspots[i].rank = 1
          /\ FLt(gdf_hotspots[k].popularity_score, gdf_hotspots[i].popularity_score)
          /\ gdf_hotspots[k].rank = 2

\* C3: for a non-empty set of retained candidates every restaurant_score,
\* taxi_score and popularity_score lies in [0, 100].
C3_ScoresWithin0And100 ==
    Scored08 =>
        \A i \in DOMAIN gdf_hotspots :
            /\ FLeq(FZero, gdf_hotspots[i].restaurant_score)
            /\ FLeq(gdf_hotspots[i].restaurant_score, F100)
            /\ FLeq(FZero, gdf_hotspots[i].taxi_score)
            /\ FLeq(gdf_hotspots[i].taxi_score, F100)
            /\ FLeq(FZero, gdf_hotspots[i].popularity_score)
            /\ FLeq(gdf_hotspots[i].popularity_score, F100)

\* C4: on each axis the hotspot with the maximum (positive) density has
\* sub-score exactly 100, and a hotspot maximal on both axes has
\* popularity_score exactly 100.
C4_MaxDensityScores100 ==
    Scored08 =>
        LET idx == DOMAIN gdf_hotspots
            maxR(i) == \A j \in idx : ~FLt(gdf_hotspots[i].restaurant_density,
                                           gdf_hotspots[j].restaurant_density)
            maxT(i) == \A j \in idx : ~FLt(gdf_hotspots[i].taxi_density,
                                           gdf_hotspots[j].taxi_density)
        IN  \A i \in idx :
              /\ (maxR(i) /\ FLt(FZero, gdf_hotspots[i].restaurant_density))
                    => gdf_hotspots[i].restaurant_score = F100
              /\ (maxT(i) /\ FLt(FZero, gdf_hotspots[i].taxi_density))
                    => gdf_hotspots[i].taxi_score = F100
              /\ (/\ maxR(i) /\ FLt(FZero, gdf_hotspots[i].restaurant_density)
                  /\ maxT(i) /\ FLt(FZero, gdf_hotspots[i].taxi_density))
                    => gdf_hotspots[i].popularity_score = F100

\* C5: when the maximum density on an axis is 0, every score on that axis is
\* 0 and popularity_score is half of the other axis's score.
C5_ZeroMaximumScoresZero ==
    Scored08 =>
        LET idx == DOMAIN gdf_hotspots IN
        /\ (\A j \in idx : gdf_hotspots[j].restaurant_density = FZero) =>
              \A i \in idx :
                /\ gdf_hotspots[i].restaurant_score = FZero
                /\ gdf_hotspots[i].popularity_score = FMul(FHalf, gdf_hotspots[i].taxi_score)
        /\ (\A j \in idx : gdf_hotspots[j].taxi_density = FZero) =>
              \A i \in idx :
                /\ gdf_hotspots[i].taxi_score = FZero
                /\ gdf_hotspots[i].popularity_score = FMul(FHalf, gdf_hotspots[i].restaurant_score)

\* The maximum restaurant density is 0 while some hotspot has a positive taxi
\* score, and the scores have been computed.
C5_Witness ==
    /\ Scored08
    /\ \A j \in DOMAIN gdf_hotspots : gdf_hotspots[j].restaurant_density = FZero
    /\ \E i \in DOMAIN gdf_hotspots :
          /\ FLt(FZero, gdf_hotspots[i].taxi_score)
          /\ gdf_hotspots[i].restaurant_score = FZero

(***************************************************************************)
(* Properties of 02_merge_restaurants.py                                   *)
(***************************************************************************)
Deduplicated02 == pc02 \in {"save", "done"}

\* Number of secondary rows up to row j that are not in the duplicate list.
RetainedUpTo(j) == Cardinality({k \in 1..j : k \notin Range(duplicates)})

C7_DroppedIffNearAndSimilar ==
    Deduplicated02 =>
        \A j \in DOMAIN gdf_osm :
            (j \in Range(duplicates)) <=>
                /\ Distance(gdf_osm[j].location, gdf_google[nn_idx[j]].location)
                       < DistanceThreshold
                /\ FuzzRatio(Lower(gdf_google[nn_idx[j]].name), Lower(gdf_osm[j].name))
                       >= NameSimilarityThreshold

(***************************************************************************)
(* Properties of 07_cluster_taxi_dropoffs.py                               *)
(***************************************************************************)
Prepared07 == pc07 \in {"cluster", "map", "validate", "zones", "save", "done"}
Mapped07 == pc07 \in {"validate", "zones", "save", "done"}

\* The positions of coords_weighted that hold copies of row i of df.
CopiesOf(i) == {k \in DOMAIN coords_weighted : coords_weighted[k] = df[i].point}

\* The labels of the copies of row i, in copy order.
CopyLabels(i) ==
    LET lo == CHOOSE k \in CopiesOf(i) : \A o \in CopiesOf(i) : k <= o
    IN  [k \in 1..Cardinality(CopiesOf(i)) |-> labels[lo + k - 1]]

C9_TiesToFirstEncountered ==
    Mapped07 =>
        /\ Len(labels_original) = Len(df)
        /\ \A i \in DOMAIN df : labels_original[i] = FirstMostCommon(CopyLabels(i))

\* C9: the label of a point is a majority label of its copies, and among
\* the labels that tie for the majority it is the smallest one (so the noise
\* label -1 wins every tie it takes part in).
C9_MajorityTiesToSmallest ==
    Mapped07 =>
        /\ Len(labels_original) = Len(df)
        /\ \A i \in DOMAIN df :
              LET group == CopyLabels(i)
                  v == labels_original[i]
              IN  /\ v \in Range(group)
                  /\ \A u \in Range(group) :
                        /\ Count(group, u) <= Count(group, v)
                        /\ Count(group, u) = Count(group, v) => v <= u

\* A mapped point whose copies tie and whose first copy does not carry the
\* smallest of the tied labels.
C9_Witness ==
    /\ Mapped07
    /\ \E i \in DOMAIN df :
          /\ Len(CopyLabels(i)) = 2
          /\ CopyLabels(i)[1] > CopyLabels(i)[2]
          /\ labels_original[i] = CopyLabels(i)[2]

\* C10: after the mapping every original point has exactly one label, a
\* cluster id or -1, and every cluster has at least min_cluster_size
\* original points.
C10_ClustersHaveMinSizePoints ==
    Mapped07 =>
        /\ Len(labels_original) = Len(df)
        /\ \A i \in DOMAIN df : labels_original[i] = Noise \/ labels_original[i] \in Nat
        /\ \A c \in Range(labels_original) \ {Noise} :
              Count(labels_original, c) >= min_cluster_size

(***************************************************************************)
(* Properties of the validation routines                                   *)
(***************************************************************************)
\* C11: in each of the three routines, with fewer than 2 clusters besides
\* noise both metrics are None, nothing is raised and the cluster and noise
\* counts are returned; with 2 or more clusters both metrics are present.
C11_MetricsAbsentIffFewClusters ==
    \A k \in DOMAIN resultsV :
        /\ ~resultsV[k].raised
        /\ resultsV[k].n_clusters = NClusters(labelsV)
        /\ resultsV[k].n_noise = Count(labelsV, Noise)
        /\ NClusters(labelsV) < 2 =>
              /\ resultsV[k].silhouette_score = NoneValue
              /\ resultsV[k].davies_bouldin = NoneValue
        /\ NClusters(labelsV) >= 2 =>
              /\ resultsV[k].silhouette_score # NoneValue
              /\ resultsV[k].davies_bouldin # NoneValue

\* C12: when there are more clustered points than the sample size, the two
\* metrics routines of the scripts compute on a subsample of exactly that
\* size, and two runs on the same labels select the same subsample and
\* return the same metrics.
C12_SubsampleIsDeterministic ==
    (/\ pcV = "done"
     /\ routineV \in {"restaurants", "taxi"}
     /\ NClusters(labelsV) >= 2
     /\ Cardinality(Clustered(labelsV)) > SampleSize) =>
        /\ resultsV[1] = resultsV[2]
        /\ \A k \in DOMAIN resultsV :
              ~resultsV[k].raised =>
                  Cardinality(resultsV[k].silhouette_score.points) = SampleSize

(***************************************************************************)
(* Properties of zone building (06_cluster_restaurants.py,                 *)
(* 07_cluster_taxi_dropoffs.py)                                            *)
(***************************************************************************)
ZonesBuilt06 == pc06 \in {"save", "done"}
ZonesBuilt07 == pc07 \in {"save", "done"}

\* Sum of the weights of the rows 1..n of df that carry label c.
RECURSIVE WeightOfLabel(_, _)
WeightOfLabel(c, n) ==
    IF n = 0 THEN 0
    ELSE (IF labels_original[n] = c THEN df[n].weight ELSE 0) + WeightOfLabel(c, n - 1)

\* Sum of the member counts of the first n zones.
RECURSIVE TotalRestaurants(_)
TotalRestaurants(n) ==
    IF n = 0 THEN 0 ELSE gdf_zones[n].n_restaurants + TotalRestaurants(n - 1)

RECURSIVE TotalDropoffs(_)
TotalDropoffs(n) ==
    IF n = 0 THEN 0 ELSE gdf_hotspots07[n].n_dropoffs + TotalDropoffs(n - 1)

\* C13: zone building emits one zone for each label other than -1 and none
\* for -1; a zone's member count is the number of points with its label, a
\* hotspot's total_weight is the sum of the unrounded weights of its
\* members, and the member counts plus the noise count give the input size.
C13_OneZonePerCluster ==
    /\ ZonesBuilt06 =>
          /\ Len(gdf_zones) = Cardinality(Range(labels06) \ {Noise})
          /\ \A c \in Range(labels06) \ {Noise} :
                \E k \in DOMAIN gdf_zones : gdf_zones[k].cluster_id = c
          /\ \A k \in DOMAIN gdf_zones :
                /\ gdf_zones[k].cluster_id # Noise
                /\ gdf_zones[k].n_restaurants = Count(labels06, gdf_zones[k].cluster_id)
                /\ gdf_zones[k].n_restaurants > 0
          /\ TotalRestaurants(Len(gdf_zones)) + Count(labels06, Noise) = Len(gdf06)
    /\ ZonesBuilt07 =>
          /\ Len(gdf_hotspots07) = Cardinality(Range(labels_original) \ {Noise})
          /\ \A c \in Range(labels_original) \ {Noise} :
                \E k \in DOMAIN gdf_hotspots07 : gdf_hotspots07[k].hotspot_id = c
          /\ \A k \in DOMAIN gdf_hotspots07 :
                /\ gdf_hotspots07[k].hotspot_id # Noise
                /\ gdf_hotspots07[k].n_dropoffs
                       = Count(labels_original, gdf_hotspots07[k].hotspot_id)
                /\ gdf_hotspots07[k].n_dropoffs > 0
                /\ gdf_hotspots07[k].total_weight
                       = WeightOfLabel(gdf_hotspots07[k].hotspot_id, Len(df))
          /\ TotalDropoffs(Len(gdf_hotspots07)) + Count(labels_original, Noise) = Len(df)

\* Hotspots built from drop-offs of which one is noise and one, with a
\* weight that rounding changes, is in a hotspot.
C13_Witness ==
    /\ ZonesBuilt07
    /\ Count(labels_original, Noise) > 0
    /\ \E k \in DOMAIN gdf_hotspots07 :
          /\ gdf_hotspots07[k].total_weight = 15
          /\ gdf_hotspots07[k].n_dropoffs = 1

\* C14: a fit with fewer than 2 clusters, all points noise included, never
\* makes a clustering script fail: zone building and saving still run.
C14_DegradedClusteringIsNotFatal ==
    /\ (Len(labels06) > 0 /\ NClusters(labels06) < 2) => pc06 # "failed"
    /\ (Len(labels) > 0 /\ NClusters(labels) < 2) => pc07 # "failed"

\* The member points of a dining zone and of a taxi hotspot.
ZonePoints06(k) ==
    {Coords(gdf_proj06[i].geometry) : i \in Members(labels06, gdf_zones[k].cluster_id)}
ZonePoints07(k) ==
    {Coords(ToProjectedPoint(PointGeometry(df[i].dropoff))) :
        i \in Members(labels_original, gdf_hotspots07[k].hotspot_id)}

\* Buffer distances to compare a zone with.
BufferDistances == {0, 50, 100, 150, 200}

Intersected08 == pc08 \in {"filter", "score", "save", "done", "failed"}

\* The two rectangles share a region of positive width and height.
OverlapsInArea(a, b) ==
    /\ Max2(a.x1, b.x1) < Min2(a.x2, b.x2)
    /\ Max2(a.y1, b.y1) < Min2(a.y2, b.y2)

\* The rows of gdf_intersections for dining zone a and taxi hotspot b.
RowsOfPair(a, b) ==
    {j \in DOMAIN gdf_intersections :
        /\ gdf_intersections[j].dining_cluster_id = gdf_dining[a].cluster_id
        /\ gdf_intersections[j].taxi_hotspot_id = gdf_taxi[b].hotspot_id}

\* C16: compute_spatial_intersections returns one candidate for a pair of a
\* dining zone and a taxi hotspot exactly when the two overlap in a region
\* of nonzero area, and none for a pair that is disjoint or only touches; so
\* there are at most |A| * |B| candidates.
C16_CandidateIffAreaOverlap ==
    Intersected08 =>
        /\ \A a \in DOMAIN gdf_dining, b \in DOMAIN gdf_taxi :
              Cardinality(RowsOfPair(a, b)) =
                  IF OverlapsInArea(gdf_dining[a].geometry, gdf_taxi[b].geometry) THEN 1 ELSE 0
        /\ \A j \in DOMAIN gdf_intersections :
              \E a \in DOMAIN gdf_dining, b \in DOMAIN gdf_taxi : j \in RowsOfPair(a, b)
        /\ \A j \in DOMAIN gdf_intersections :
              gdf_intersections[j].geometry.type = "Polygon"
        /\ Len(gdf_intersections) <= Len(gdf_dining) * Len(gdf_taxi)

\* A scan that met an overlapping pair, a pair that only touches and a
\* disjoint pair.
C16_Witness ==
    /\ Intersected08
    /\ Len(gdf_intersections) > 0
    /\ \E a \in DOMAIN gdf_dining, b \in DOMAIN gdf_taxi :
          /\ Intersects(gdf_dining[a].geometry, gdf_taxi[b].geometry)
          /\ ~OverlapsInArea(gdf_dining[a].geometry, gdf_taxi[b].geometry)
          /\ RowsOfPair(a, b) = {}
    /\ \E a \in DOMAIN gdf_dining, b \in DOMAIN gdf_taxi :
          ~Intersects(gdf_dining[a].geometry, gdf_taxi[b].geometry)

\* C17: in every candidate overlap_ratio_dining is intersection area over
\* dining area, overlap_ratio_taxi is intersection area over taxi area and
\* min_overlap_ratio is the smaller one, with 0 < min_overlap_ratio <= each
\* ratio <= 1; areas 20,000 / 15,000 with intersection 5,000 give 0.25, 1/3
\* and 0.25.
C17_OverlapRatios ==
    Intersected08 =>
        \A j \in DOMAIN gdf_intersections :
            LET c == gdf_intersections[j]
            IN  /\ c.overlap_ratio_dining = FDiv(c.intersection_area_sqm, c.dining_area_sqm)
                /\ c.overlap_ratio_taxi = FDiv(c.intersection_area_sqm, c.taxi_area_sqm)
                /\ c.min_overlap_ratio \in {c.overlap_ratio_dining, c.overlap_ratio_taxi}
                /\ FLeq(c.min_overlap_ratio, c.overlap_ratio_dining)
                /\ FLeq(c.min_overlap_ratio, c.overlap_ratio_taxi)
                /\ FLt(FZero, c.min_overlap_ratio)
                /\ FLeq(c.overlap_ratio_dining, FromInt(1))
                /\ FLeq(c.overlap_ratio_taxi, FromInt(1))
                /\ (/\ c.dining_area_sqm = FromInt(20000)
                    /\ c.taxi_area_sqm = FromInt(15000)
                    /\ c.intersection_area_sqm = FromInt(5000)) =>
                       /\ c.overlap_ratio_dining = FDiv(FromInt(1), FromInt(4))
                       /\ c.overlap_ratio_taxi = FDiv(FromInt(1), FromInt(3))
                       /\ c.min_overlap_ratio = FDiv(FromInt(1), FromInt(4))

\* The candidate of the example, next to one whose taxi hotspot lies inside
\* the dining zone (ratio 1).
C17_Witness ==
    /\ pc08 = "filter"
    /\ \E j \in DOMAIN gdf_intersections :
          /\ gdf_intersections[j].dining_area_sqm = FromInt(20000)
          /\ gdf_intersections[j].taxi_area_sqm = FromInt(15000)
          /\ gdf_intersections[j].intersection_area_sqm = FromInt(5000)
    /\ \E j \in DOMAIN gdf_intersections :
          gdf_intersections[j].overlap_ratio_taxi = FromInt(1)

(***************************************************************************)
(* Properties of run_pipeline.py                                           *)
(***************************************************************************)
\* The order in which the scripts are to be started.
PhaseOrder ==
    << "src/data_processing/02_process_taxi_data.py",
       "src/data_processing/02_merge_restaurants.py",
       "src/data_processing/06_cluster_restaurants.py",
       "src/data_processing/07_cluster_taxi_dropoffs.py",
       "src/data_processing/08_spatial_intersection.py" >>

\* Some child that ended did not end with return code 0.
SomePhaseFailed == \E k \in 1..Len(returncodes) : returncodes[k] # 0

\* C18: the scripts are started in the fixed order (taxi processing,
\* restaurant merge, restaurant clustering, taxi clustering, spatial
\* intersection), each at most once; a script is started only after every
\* earlier one ended with return code 0; once a script has failed no later
\* script is started and the run exits with status 1.
C18_PhasesInOrderStopAtFirstFailure ==
    /\ Len(launched) <= Len(PhaseOrder)
    /\ \A k \in 1..Len(launched) : launched[k] = PhaseOrder[k]
    /\ Len(returncodes) \in {Len(launched) - 1, Len(launched)}
    /\ \A k \in 1..Len(launched) : \A j \in 1..(k - 1) : returncodes[j] = 0
    /\ \A k \in 1..Len(returncodes) : returncodes[k] # 0 => k = Len(launched)
    /\ SomePhaseFailed /\ pcP # "returned" => pcP = "exited" /\ exit_status = 1
    /\ pcP = "exited" /\ exit_status = 0 => Len(launched) = Len(PhaseOrder) /\ ~SomePhaseFailed

\* The third phase failed after two that succeeded, and the run has exited.
C18_Witness ==
    /\ pcP = "exited"
    /\ Len(launched) = 3
    /\ returncodes = <<0, 0, 2>>
    /\ exit_status = 1

\* C19: when the intersection stage has ended, the final hotspot file and
\* its summary are both written or neither is, and a stage that ended with an
\* error has written neither.
C19_FinalOutputsBothOrNeither ==
    pc08 \in {"done", "failed"} =>
        /\ files08.final_hotspots.written <=> files08.analysis.written
        /\ pc08 = "failed" => ~files08.final_hotspots.written

(***************************************************************************)
(* Properties of 02_process_taxi_data.py                                   *)
(***************************************************************************)
\* The saved records of the files from the k-th on whose batch completed.
RECURSIVE RecordsOfCompleted(_)
RecordsOfCompleted(k) ==
    IF k > Len(parquet_files) THEN <<>>
    ELSE (IF logT[k].batch = "COMPLETED"
          THEN ColumnsToSave(ProcessBatchFile(parquet_files[k], taxi_zones_readable).rows)
          ELSE <<>>) \o RecordsOfCompleted(k + 1)

\* C20: when the ingestion has ended every file was processed, in the order
\* of the files; a file failed exactly when one of its steps raised; the
\* output holds the records of the completed files in file order and no
\* record of a failed file.
C20_FailedFilesAreSkipped ==
    pcT = "done" =>
        /\ Len(logT) = Len(parquet_files)
        /\ \A k \in 1..Len(logT) :
            /\ logT[k].file = parquet_files[k].name
            /\ logT[k].batch = "FAILED" <=> ProcessBatchFile(parquet_files[k], taxi_zones_readable).raised
        /\ filesT.parquet.written <=> \E k \in 1..Len(logT) : logT[k].batch = "COMPLETED"
        /\ filesT.parquet.rows = RecordsOfCompleted(1)
        /\ \A r \in 1..Len(filesT.parquet.rows) : \A k \in 1..Len(logT) :
            logT[k].file = filesT.parquet.rows[r].dropoff_datetime.month => logT[k].batch = "COMPLETED"

\* The first file failed, the second completed and its records were saved.
C20_Witness ==
    /\ pcT = "done"
    /\ Len(parquet_files) = 2
    /\ logT[1].batch = "FAILED"
    /\ logT[2].batch = "COMPLETED"
    /\ Len(filesT.parquet.rows) > 0

(***************************************************************************)
(* Properties of the ingestion phase within the pipeline run               *)
(***************************************************************************)
\* No batch of the taxi ingestion completed.
NoBatchCompleted == \A k \in 1..Len(logT) : logT[k].batch # "COMPLETED"

\* C21: once the ingestion child has ended, the phase is reported failed
\* (return code not 0) exactly when no file was processed successfully, and
\* in that case no phase after the first is ever started.
C21_IngestionFailsIffNoChunkSucceeds ==
    Len(returncodes) >= 1 =>
        /\ returncodes[1] # 0 <=> NoBatchCompleted
        /\ NoBatchCompleted => Len(launched) = 1

(***************************************************************************)
(* Properties of apply_temporal_weights                                    *)
(***************************************************************************)
\* The weight the documentation of apply_temporal_weights gives to a day of
\* the week (0 = Monday) and an hour, in tenths: weekend dinner (Fri-Sun
\* 18:00-22:00) 1.5, weekday dinner (Mon-Thu 18:00-22:00) 1.0, weekday lunch
\* (Mon-Fri 12:00-14:00) 0.8, breakfast (7:00-10:00) 0.5, late night
\* (22:00-01:00) weekend 0.7 and weekday 0.4, other times 0.3.
DocumentedWeight(day_of_week, hour) ==
    LET fri_sun == day_of_week \in {4, 5, 6}
        mon_thu == day_of_week \in {0, 1, 2, 3}
        mon_fri == day_of_week \in {0, 1, 2, 3, 4}
        late == hour >= 22 \/ hour < 1
    IN  CASE fri_sun /\ hour >= 18 /\ hour < 22 -> 15
          [] mon_thu /\ hour >= 18 /\ hour < 22 -> 10
          [] mon_fri /\ hour >= 12 /\ hour < 14 -> 8
          [] hour >= 7 /\ hour < 10 -> 5
          [] fri_sun /\ late -> 7
          [] mon_thu /\ late -> 4
          [] OTHER -> 3

\* C22: every trip of every processed batch carries the weight documented
\* for its day and hour, and the weight lies in [0.3, 1.5].
C22_WeightsAreTheDocumentedOnes ==
    \A b \in 1..Len(processed_dfs) : \A r \in 1..Len(processed_dfs[b].rows) :
        LET row == processed_dfs[b].rows[r]
        IN  /\ row.weight = DocumentedWeight(row.dropoff_datetime.day_of_week, row.dropoff_datetime.hour)
            /\ row.weight >= 3
            /\ row.weight <= 15

(***************************************************************************)
(* Properties of check_prerequisites                                       *)
(***************************************************************************)
\* A required file is missing, or a required directory is missing or empty.
SomePrerequisiteMissing ==
    \/ workdir["config/config.yaml"] # "file"
    \/ workdir["data/external/boundaries/nybb.shp"] # "file"
    \/ workdir["data/raw/taxi"] # "nonempty"
    \/ workdir["data/raw/restaurants"] # "nonempty"

\* C23: once the prerequisites were checked, a missing file or a missing or
\* empty directory means that no script was started and the run has exited
\* with status 1; with everything present the run is in the phase loop:
\* it has not exited without starting the first script.
C23_MissingPrerequisiteStartsNoPhase ==
    pcP # "prerequisites" =>
        /\ SomePrerequisiteMissing => launched = <<>> /\ pcP = "exited" /\ exit_status = 1
        /\ ~SomePrerequisiteMissing => ~(pcP = "exited" /\ launched = <<>>)

\* The restaurant directory is there but empty: the run exited at once.
C23_Witness ==
    /\ pcP = "exited"
    /\ workdir["data/raw/restaurants"] = "empty"
    /\ workdir["data/raw/taxi"] = "nonempty"
    /\ workdir["config/config.yaml"] = "file"
    /\ workdir["data/external/boundaries/nybb.shp"] = "file"
    /\ launched = <<>>
    /\ exit_status = 1

(***************************************************************************)
(* Properties of app.py                                                    *)
(***************************************************************************)
\* The last request was a /api/recommend with lat and lon on loaded data.
RecommendServed ==
    /\ requestA.path = "/api/recommend"
    /\ hotspots_data.loaded
    /\ requestA.lat.given
    /\ requestA.lon.given

\* The distance between the user and a centroid, both in units of 100 m, is
\* at most max_distance_km (1 km = 10 units).
InRange(user_x, centroid, max_distance_km) ==
    (IF user_x >= centroid THEN user_x - centroid ELSE centroid - user_x) <= 10 * max_distance_km

\* C24: for a /api/recommend request with lat/lon on loaded data every
\* returned recommendation is within max_distance_km of the user, at most
\* `limit` are returned, in non-increasing order of recommendation_score =
\* 0.6 * popularity_score + 0.4 * accessibility_score with the accessibility
\* score in [0, 100], total_found is the number returned, and when no
\* hotspot is in range the response carries an empty recommendations list.
C24_RecommendationsWithinRangeLimitAndOrder ==
    RecommendServed =>
        LET recs == responseA.recommendations
            max_distance_km == GetOr(requestA.max_distance_km, 2)
            limit == GetOr(requestA.limit, 10)
        IN  /\ \A i \in 1..Len(recs) :
                /\ InRange(requestA.lon.value, recs[i].centroid, max_distance_km)
                /\ recs[i].accessibility_score.num >= 0
                /\ recs[i].accessibility_score.num <= 100 * recs[i].accessibility_score.den
                /\ recs[i].recommendation_score.den = 10 * recs[i].accessibility_score.den
                /\ recs[i].recommendation_score.num =
                      6 * recs[i].popularity_score * recs[i].accessibility_score.den
                      + 4 * recs[i].accessibility_score.num
            /\ Len(recs) <= limit
            /\ \A i \in 1..(Len(recs) - 1) :
                recs[i].recommendation_score.num >= recs[i + 1].recommendation_score.num
            /\ responseA.total_found.given => responseA.total_found.value = Len(recs)
            /\ (\A k \in 1..Len(hotspots_data.rows) :
                    ~InRange(requestA.lon.value, hotspots_data.rows[k].centroid, max_distance_km))
                => responseA.status = 200 /\ responseA.kind = "none in range" /\ recs = <<>>

\* C25: a request served while hotspots_data is None is answered with
\* status 500 by /api/hotspots, /api/recommend and /api/stats; a
\* /api/recommend on loaded data without lat or lon is answered with 400; no
\* request handler changes hotspots_data.
C25_ErrorsWithoutDataOrPosition ==
    [][pcA = "serving" =>
        /\ hotspots_data' = hotspots_data
        /\ ~hotspots_data.loaded => responseA'.status = 500 /\ responseA'.kind = "No data loaded"
        /\ (hotspots_data.loaded /\ requestA'.path = "/api/recommend"
             /\ (~requestA'.lat.given \/ ~requestA'.lon.given)) => responseA'.status = 400]_vars

\* A /api/recommend without lon was answered 400 on loaded data.
C25_Witness ==
    /\ pcA = "serving"
    /\ hotspots_data.loaded
    /\ Len(hotspots_data.rows) = 2
    /\ requestA.path = "/api/recommend"
    /\ requestA.lat.given
    /\ ~requestA.lon.given
    /\ responseA.status = 400

(***************************************************************************)
(* Properties of the label mapping of 07_cluster_taxi_dropoffs.py          *)
(***************************************************************************)
\* The sum of the first k entries of a sequence of numbers.
RECURSIVE SumUpTo(_, _)
SumUpTo(s, k) == IF k = 0 THEN 0 ELSE s[k] + SumUpTo(s, k - 1)

\* C26: the multiplicities used by the mapping sum to the length of the
\* fitted label array; the label group of a point is the non-empty run of
\* positions that hold that point's own copies; labels_original has one
\* entry per point, in input order, taken from the labels of its group.
C26_LabelMappingIsAligned ==
    Mapped07 =>
        /\ SumUpTo(weights_rounded, Len(weights_rounded)) = Len(labels)
        /\ Len(weights_rounded) = Len(df)
        /\ Len(labels_original) = Len(df)
        /\ \A i \in DOMAIN df :
            LET lo == SumUpTo(weights_rounded, i - 1)
                group == (lo + 1)..(lo + weights_rounded[i])
            IN  /\ group # {}
                /\ group = CopiesOf(i)
                /\ labels_original[i] = MostCommon(SubSeq(labels, lo + 1, lo + weights_rounded[i]))
                /\ \E k \in group : labels_original[i] = labels[k]

\* Two points of two copies each, fitted into different clusters.
C26_Witness ==
    /\ Mapped07
    /\ Len(df) = 2
    /\ weights_rounded = <<2, 2>>
    /\ labels = <<0, 0, 1, 1>>
    /\ labels_original = <<0, 1>>

(***************************************************************************)
(* Properties of the saved validation metrics                              *)
(***************************************************************************)
\* The restaurant stage has saved its outputs: the metrics record agrees
\* with the saved labels and zones.
SavedMetricsConsistent06 ==
    pc06 = "done" =>
        /\ files06.metrics.n_clusters = Len(files06.zones)
        /\ files06.metrics.n_noise =
              Cardinality({i \in DOMAIN files06.restaurants : files06.restaurants[i].cluster = Noise})
        /\ files06.metrics.n_total = Len(files06.restaurants)
        /\ files06.metrics.n_noise <= Len(files06.restaurants)

\* The taxi stage has saved df with labels_original as its cluster column,
\* gdf_hotspots and metrics: the metrics record agrees with them.
SavedMetricsConsistent07 ==
    pc07 = "done" =>
        /\ metrics.n_clusters = Len(gdf_hotspots07)
        /\ metrics.n_noise = Count(labels_original, Noise)
        /\ metrics.n_total = Len(df)
        /\ metrics.n_noise <= Len(df)

\* C27: for each clustering stage the saved metrics record has n_clusters
\* equal to the number of zone polygons, n_noise equal to the number of
\* input points saved with the noise label, n_total equal to the number of
\* input points, and n_noise at most the number of input points.
C27_SavedMetricsMatchLabelsAndZones ==
    SavedMetricsConsistent06 /\ SavedMetricsConsistent07


(***************************************************************************)
(* Properties of a run of stage 08 that ends without hotspots               *)
(***************************************************************************)
\* C28: when no pair of zones intersects, or every candidate is filtered
\* out, filtering and scoring hand the empty set on, the stage completes,
\* and both outputs are written: final_hotspots.geojson without features and
\* the summary with n_hotspots = 0.
C28_EmptyResultIsSavedWithoutRaising ==
    /\ (pc08 \in {"score", "save", "done", "failed"} /\ Len(gdf_intersections) = 0)
           => Len(gdf_hotspots) = 0
    /\ (pc08 \in {"done", "failed"} /\ Len(gdf_hotspots) = 0) =>
           /\ pc08 = "done"
           /\ files08.final_hotspots.written
           /\ files08.final_hotspots.rows = <<>>
           /\ files08.analysis.written
           /\ files08.analysis.n_hotspots = 0

(***************************************************************************)
(* Properties of the thresholds read from config.yaml                       *)
(***************************************************************************)
\* C29: once main() has read the configuration, the threshold the filter
\* uses is the number the configuration gives for its key, 0 included.
C29_ConfiguredThresholdsAreApplied ==
    pc08 \in {"load", "intersect", "filter", "score", "save", "done", "failed"} =>
        /\ (~config08.min_area_sqm.absent /\ ~config08.min_area_sqm.isNone)
               => min_area_sqm = config08.min_area_sqm.val
        /\ (~config08.min_overlap_ratio.absent /\ ~config08.min_overlap_ratio.isNone)
               => min_overlap_ratio = config08.min_overlap_ratio.val

(***************************************************************************)
(* Frame properties of filtering and scoring                                *)
(***************************************************************************)
ScoreFields ==
    {"restaurant_density", "taxi_density", "restaurant_score", "taxi_score",
     "popularity_score", "rank"}

\* The step of calculate_composite_scores keeps the rows, their order and
\* every field they had, and adds the density, score and rank fields only.
ScoringKeepsCandidates ==
    (pc08 = "score" /\ pc08' = "save") =>
        /\ Len(gdf_hotspots') = Len(gdf_hotspots)
        /\ \A i \in 1..Len(gdf_hotspots) :
              /\ \A f \in DOMAIN gdf_hotspots[i] : gdf_hotspots'[i][f] = gdf_hotspots[i][f]
              /\ DOMAIN gdf_hotspots'[i] = DOMAIN gdf_hotspots[i] \cup ScoreFields

\* The step of apply_filtering_criteria returns rows of its input, unchanged
\* and in their order, and filtering its result again returns it as it is.
FilteringKeepsAndIsIdempotent ==
    (pc08 = "filter" /\ pc08' = "score") =>
        LET kept == {gdf_hotspots'[i] : i \in 1..Len(gdf_hotspots')}
        IN  /\ gdf_hotspots' = SelectSeq(gdf_intersections, LAMBDA c : c \in kept)
            /\ apply_filtering_criteria(gdf_hotspots', min_area_sqm, min_overlap_ratio)
                   = gdf_hotspots'

\* C30: scoring returns exactly the hotspots it was given, with their
\* intersection fields unchanged and only the density, score and rank fields
\* added; filtering is idempotent and leaves the retained candidates' fields
\* unchanged.
C30_FilteringAndScoringKeepCandidates ==
    [][ScoringKeepsCandidates /\ FilteringKeepsAndIsIdempotent]_vars

\* Scoring has run on a filtered set that is smaller than the candidate set.
C30_Witness ==
    /\ pc08 = "save"
    /\ Len(gdf_hotspots) >= 1
    /\ Len(gdf_hotspots) < Len(gdf_intersections)
    /\ "rank" \in DOMAIN gdf_hotspots[1]

====
